---- MODULE Spec2Model ----
(***************************************************************************)
(* Model of the PATS API client, src/pats/core.py, buyer.py and seller.py. *)
(*                                                                         *)
(* The transport core PATSAPIClient._send_request performs one HTTPS       *)
(* request, reads the response and classifies it: it returns '' or the     *)
(* decoded JSON body, or it raises.  PATSAPIClient._relay_error turns an   *)
(* error code and a reason into a PATSException.                           *)
(*                                                                         *)
(* Python values are tagged records (JNull, JNum, JStr, JArr, JObj), texts *)
(* and messages are strings, and the outcome of a call is a record that    *)
(* says whether the call returned or raised, and what.                     *)
(*                                                                         *)
(* Spec runs a client built with the defaults against every response of    *)
(* the model.  ClientSpec runs clients of every configuration (debug mode, *)
(* raw mode, session) with requests that differ in method, extra headers   *)
(* and body.  ObjectSpec builds the value objects CampaignDetails,         *)
(* InsertionOrderDetails, InsertionOrderLineItemPrint and                  *)
(* InsertionOrderLineItemDigital from keyword arguments and serializes     *)
(* them with dict_repr, one object at a time.  LineItemSpec builds order   *)
(* and proposal line items that differ in package type, buy type, terms,   *)
(* placement fields, servedBy and operation, serializes them in both roles *)
(* and calls setOperation.  CallerSpec runs create_campaign of a PATSBuyer *)
(* and send_order_revision of a PATSSeller on the objects that were built, *)
(* and PagingSpec runs the loop of list_all_orders of both.                *)
(***************************************************************************)
EXTENDS Integers, Sequences, FiniteSets, TLC

VARIABLES api_key,    \* PATSAPIClient.api_key, set by __init__
          pc,         \* position of the caller in _send_request
          attempts,   \* number of h.request() calls made by the current call
          response,   \* the response read by h.getresponse() / response.read()
          result,     \* how the current call ended
          debug_mode, \* PATSAPIClient.debug_mode
          raw_mode,   \* PATSAPIClient.raw_mode
          sink,       \* the mapping the caller gave __init__ as session, if any
          session,    \* PATSAPIClient.session: "None", or "sink" (the caller's mapping)
          request,    \* the arguments of the current _send_request call
          headers,    \* the headers _send_request hands to h.request()
          args,       \* the positional arguments of the latest constructor call
          kwargs,     \* the keyword arguments of the latest constructor call
          obj,        \* the value object the latest constructor call built
          vo,         \* how the latest value object operation ended
          caller,     \* the attributes PATSBuyer and PATSSeller add to the client
          op          \* the buyer or seller method in progress, and how it ended

\* the client's configuration and the caller's sink
client_vars == <<api_key, debug_mode, raw_mode, sink, session>>

\* one _send_request call
call_vars == <<pc, attempts, response, result, request, headers>>

\* the value objects
object_vars == <<args, kwargs, obj, vo>>

\* the buyer or the seller, and its method call
caller_vars == <<caller, op>>

vars == <<client_vars, call_vars, object_vars, caller_vars>>

----------------------------------------------------------------------------
(* Bounds of the model *)

\* longest fieldValidations list a response body carries
MaxValidations == 2

----------------------------------------------------------------------------
(* Python / JSON values *)

JNull == [t |-> "null"]
JNum(n) == [t |-> "num", n |-> n]
JStr(s) == [t |-> "str", s |-> s]
JArr(a) == [t |-> "arr", a |-> a]
JObj(o) == [t |-> "obj", o |-> o]

\* a in b for strings: b has a as a substring
Contains(hay, needle) ==
    \E i \in 1..(Len(hay) - Len(needle) + 1) :
        SubSeq(hay, i, i + Len(needle) - 1) = needle

RECURSIVE Join(_, _)
Join(texts, sep) ==
    IF texts = <<>> THEN ""
    ELSE IF Len(texts) = 1 THEN texts[1]
    ELSE texts[1] \o sep \o Join(Tail(texts), sep)

\* the order in which a body lists the members of an object
KeyOrder == <<"status", "fieldValidations", "dataName", "code", "message">>

\* the JSON text of a value, as the server writes it
RECURSIVE JSONText(_)
JSONText(v) ==
    CASE v.t = "null" -> "null"
      [] v.t = "num" -> ToString(v.n)
      [] v.t = "str" -> "\"" \o v.s \o "\""
      [] v.t = "arr" ->
            "[" \o Join([i \in 1..Len(v.a) |-> JSONText(v.a[i])], ",") \o "]"
      [] v.t = "obj" ->
            LET keys == SelectSeq(KeyOrder, LAMBDA k : k \in DOMAIN v.o)
            IN "{" \o Join([i \in 1..Len(keys) |->
                              "\"" \o keys[i] \o "\":" \o JSONText(v.o[keys[i]])],
                           ",") \o "}"

----------------------------------------------------------------------------
(* The responses the server may give *)

\* a mapping with the members of `pairs` (a set of <<key, value>>)
ObjOf(pairs) == [k \in {p[1] : p \in pairs} |-> (CHOOSE p \in pairs : p[1] = k)[2]]

\* one entry of a fieldValidations list
Entries ==
    { JObj(ObjOf({<<"dataName", d>> : d \in dn} \cup {<<"message", m>> : m \in ms})) :
        dn \in {{}, {JNull}, {JStr("startDate")}},
        ms \in {{}, {JStr("required")}} }

RECURSIVE SeqsUpTo(_, _)
SeqsUpTo(S, n) ==
    IF n = 0 THEN {<<>>}
    ELSE LET shorter == SeqsUpTo(S, n - 1)
         IN shorter \cup {Append(s, e) : s \in {x \in shorter : Len(x) = n - 1}, e \in S}

FieldValidationLists == SeqsUpTo(Entries, MaxValidations)

\* bodies of the kind {"status": ..., "fieldValidations": ...}
ValidationBodies ==
    { JObj(ObjOf({<<"status", JStr(s)>>} \cup {<<"fieldValidations", f>> : f \in fv})) :
        s \in {"FAILED", "OK"},
        fv \in {{}, {JNull}} \cup {{JArr(l)} : l \in FieldValidationLists} }

\* bodies of the kind {"code": ..., "message": ...}
ErrorBodies ==
    { JObj(ObjOf({<<"status", s>> : s \in st} \cup {<<"code", c>> : c \in cd}
                  \cup {<<"message", m>> : m \in ms})) :
        st \in {{}, {JStr("FAILED")}},
        cd \in {{}, {JNum(401)}, {JNum(404)}, {JNum(9001)}},
        ms \in {{}, {JStr("Invalid order")}} }

\* bodies that are JSON but no object
PlainBodies ==
    { JArr(<<>>), JArr(<<JStr("status")>>), JArr(<<JStr("message")>>),
      JStr("ok"), JStr("status"), JNum(5), JNull }

JSONValues == ValidationBodies \cup ErrorBodies \cup PlainBodies

\* body texts that are no JSON
PlainTexts == {"", "Bad parameter: startDate"}

Texts == {JSONText(v) : v \in JSONValues} \cup PlainTexts

LocationURI == "https://host/orders/O-1/versions/0"
NoHeaders == [h \in {} |-> ""]
HeaderSets == {NoHeaders, [h \in {"Location"} |-> LocationURI]}

Statuses == {200, 201, 400, 401, 404, 406, 409, 422, 500, 503, 504}

\* the reason phrase of the status line
ReasonPhrase(status) ==
    CASE status = 200 -> "OK"
      [] status = 201 -> "Created"
      [] status = 400 -> "Bad Request"
      [] status = 401 -> "Unauthorized"
      [] status = 404 -> "Not Found"
      [] status = 406 -> "Not Acceptable"
      [] status = 409 -> "Conflict"
      [] status = 422 -> "Unprocessable Entity"
      [] status = 500 -> "Internal Server Error"
      [] status = 503 -> "Service Unavailable"
      [] status = 504 -> "Gateway Timeout"

Responses ==
    { [status |-> s, reason |-> ReasonPhrase(s), text |-> t, headers |-> h] :
        s \in Statuses, t \in Texts, h \in HeaderSets }

NoResponse == [status |-> 0, reason |-> "", text |-> "", headers |-> NoHeaders]

APIKeys == {"KEY-A", "KEY-B"}

\* the responses a client with any configuration is run against
SomeResponses ==
    { [status |-> 200, reason |-> "OK", text |-> "", headers |-> NoHeaders],
      [status |-> 200, reason |-> "OK", text |-> "{\"status\":\"OK\"}",
       headers |-> NoHeaders],
      [status |-> 200, reason |-> "OK", text |-> "{\"status\":\"FAILED\"}",
       headers |-> NoHeaders],
      [status |-> 201, reason |-> "Created", text |-> "",
       headers |-> [h \in {"Location"} |-> LocationURI]],
      [status |-> 404, reason |-> "Not Found", text |-> "Bad parameter: startDate",
       headers |-> NoHeaders],
      [status |-> 422, reason |-> "Unprocessable Entity",
       text |-> "{\"code\":401,\"message\":\"Invalid order\"}", headers |-> NoHeaders] }

----------------------------------------------------------------------------
(* The requests the callers make, and the caller's session mapping *)

VERSION == "0.5"

\* dict.update: the members of e, and the members of d that e does not name
DictUpdate(d, e) ==
    [k \in DOMAIN d \cup DOMAIN e |-> IF k \in DOMAIN e THEN e[k] ELSE d[k]]

\* extra_headers of the callers; the last one names keys of the base set
ExtraHeaderSets ==
    { NoHeaders,
      [h \in {"Accept", "X-MO-User-ID"} |->
          IF h = "Accept" THEN "application/vnd.mediaocean.order-v1+json" ELSE "u1"],
      [h \in {"Accept", "Content-Type", "X-MO-API-Key"} |->
          CASE h = "Accept" -> "application/vnd.mediaocean.prisma-v1+json"
            [] h = "Content-Type" -> "text/plain"
            [] h = "X-MO-API-Key" -> "KEY-C"] }

\* the arguments of _send_request; body "" stands for no body
Requests ==
    [ method : {"GET", "POST"},
      domain : {"demo.api.mediaocean.com"},
      path : {"/campaigns"},
      extra_headers : ExtraHeaderSets,
      body : {"", "{\"message\":\"it's\"}"} ]

\* the request of the callers that give no extra headers and no body
PlainRequest == [method |-> "GET", domain |-> "demo.api.mediaocean.com",
                 path |-> "/campaigns", extra_headers |-> NoHeaders, body |-> ""]

NoData == [k \in {} |-> JNull]

\* no mapping was given to __init__
NoSink == [supplied |-> FALSE, data |-> NoData]

\* what a session mapping holds when it is given to __init__
StaleData ==
    [k \in {"user", "response_status", "response_text"} |->
        CASE k = "user" -> JStr("u1")
          [] k = "response_status" -> JNum(500)
          [] k = "response_text" -> JStr("stale")]

Sinks == {NoSink, [supplied |-> TRUE, data |-> NoData],
                  [supplied |-> TRUE, data |-> StaleData]}

\* bool(mapping)
TruthyDict(d) == DOMAIN d # {}

----------------------------------------------------------------------------
(* PATSAPIClient._get_headers and the curl command of raw mode *)

\* _get_headers whose base values win over the caller's
get_headers_base_wins(key, extra_headers) ==
    DictUpdate(extra_headers,
               [h \in {"User-Agent", "Content-Type", "X-MO-API-Key"} |->
                   CASE h = "User-Agent" -> "PATS Python Library/" \o VERSION
                     [] h = "Content-Type" -> "application/json"
                     [] h = "X-MO-API-Key" -> key])

get_headers(key, extra_headers) ==
    DictUpdate([h \in {"User-Agent", "Content-Type", "X-MO-API-Key"} |->
                   CASE h = "User-Agent" -> "PATS Python Library/" \o VERSION
                     [] h = "Content-Type" -> "application/json"
                     [] h = "X-MO-API-Key" -> key],
               extra_headers)

\* re.compile(ch).sub(by, text) for a one-character pattern
RECURSIVE ReSub(_, _, _)
ReSub(ch, by, text) ==
    IF text = "" THEN ""
    ELSE (IF SubSeq(text, 1, 1) = ch THEN by ELSE SubSeq(text, 1, 1))
         \o ReSub(ch, by, SubSeq(text, 2, Len(text)))

\* the order in which headers.iteritems() yields the header names
HeaderOrder == <<"Accept", "Content-Type", "User-Agent", "X-MO-API-Key", "X-MO-User-ID">>

\* the curl(1) command that is equivalent to the request
curl_command(rq, hdrs) ==
    LET names == SelectSeq(HeaderOrder, LAMBDA h : h \in DOMAIN hdrs)
        opts  == Join([i \in 1..Len(names) |->
                         "-H \"" \o names[i] \o ": " \o hdrs[names[i]] \o "\" "], "")
        data  == IF rq.body # "" /\ rq.method \in {"POST", "PUT"}
                 THEN "--data '" \o ReSub("'", "'\"'\"'", rq.body) \o "' "
                 ELSE ""
    IN "curl -v -X \"" \o rq.method \o "\" " \o opts \o data
       \o "\"https://" \o rq.domain \o rq.path \o "\""

----------------------------------------------------------------------------
(* Value objects: placeholders of a state without one *)

NoArgs == << >>
NoKwargs == [k \in {} |-> JNull]
NoObject == [cls |-> "", attrs |-> NoKwargs]
NoOutcome == [cls |-> "", op |-> "", mode |-> "", kind |-> "none", what |-> "",
              msg |-> "", dict |-> JNull]

\* a plain PATSAPIClient: neither a buyer nor a seller
NoCaller == [cls |-> "", agency_id |-> JNull, agency_group_id |-> JNull,
             user_id |-> JNull, vendor_id |-> JNull]

\* no buyer or seller method has been called
NoOp == [name |-> "", pc |-> "idle", since |-> JNull, page |-> 0, full |-> << >>,
         fetched |-> << >>, requests |-> << >>, data |-> JNull, what |-> "",
         msg |-> "", value |-> JNull]

----------------------------------------------------------------------------
(* json.JSONDecoder().decode *)

\* the value each JSON text of the model stands for
DecodeTable == [t \in {JSONText(v) : v \in JSONValues} |->
                   CHOOSE v \in JSONValues : JSONText(v) = t]

\* decode(text): the value, or ValueError when the text is no JSON
JSONDecode(text) ==
    IF text \in DOMAIN DecodeTable
    THEN [ok |-> TRUE, v |-> DecodeTable[text], exc |-> ""]
    ELSE [ok |-> FALSE, v |-> JNull, exc |-> "ValueError"]

----------------------------------------------------------------------------
(* Python operators on decoded values *)

\* key in js: "yes", "no", or "TypeError" when js is not a container
PyIn(key, js) ==
    CASE js.t = "obj" -> IF key \in DOMAIN js.o THEN "yes" ELSE "no"
      [] js.t = "arr" -> IF \E i \in 1..Len(js.a) : js.a[i] = JStr(key) THEN "yes" ELSE "no"
      [] js.t = "str" -> IF Contains(js.s, key) THEN "yes" ELSE "no"
      [] OTHER -> "TypeError"

\* js[key] for a string key: the member, KeyError, or TypeError
PyGetItem(js, key) ==
    CASE js.t = "obj" /\ key \in DOMAIN js.o -> [ok |-> TRUE, v |-> js.o[key], exc |-> ""]
      [] js.t = "obj" /\ key \notin DOMAIN js.o -> [ok |-> FALSE, v |-> JNull, exc |-> "KeyError"]
      [] OTHER -> [ok |-> FALSE, v |-> JNull, exc |-> "TypeError"]

\* "%s" % v
PyFormat(v) ==
    CASE v.t = "str" -> v.s
      [] v.t = "num" -> ToString(v.n)
      [] v.t = "null" -> "None"

----------------------------------------------------------------------------
(* Outcomes of a call *)

\* the code of an outcome that no _relay_error call produced
NoCode == [t |-> "none"]

\* the statement completed and control goes on to the next one
Falls == [kind |-> "none", what |-> "", str |-> "", js |-> JNull,
          code |-> NoCode, reason |-> ""]

\* return '' (what = "str") or return js (what = "json")
Returned(what, s, js) == [kind |-> "return", what |-> what, str |-> s, js |-> js,
                          code |-> NoCode, reason |-> ""]

\* an exception of class exc with message msg; code and reason are the
\* arguments of the _relay_error call that raised it, if one did
Raised(exc, msg, code, reason) == [kind |-> "raise", what |-> exc, str |-> msg,
                                   js |-> JNull, code |-> code, reason |-> reason]

\* statement; statement
Then(first, rest) == IF first.kind # "none" THEN first ELSE rest

NoResult == Falls

----------------------------------------------------------------------------
(* PATSAPIClient._relay_error *)

\* error_code == n, for a code that is an HTTP status or a decoded js['code']
IsCode(error_code, n) == error_code.t = "num" /\ error_code.n = n

\* _relay_error whose 401 message leaves out the API key
relay_error_without_key(key, error_code, reason) ==
    IF IsCode(error_code, 400) THEN
        Raised("PATSException",
               "Bad Request. The parameters you provided did not validate",
               error_code, reason)
    ELSE IF IsCode(error_code, 401) THEN
        Raised("PATSException", reason \o " (Possibly invalid API key)",
               error_code, reason)
    ELSE IF IsCode(error_code, 404) THEN
        Raised("PATSException", "Not found: " \o reason, error_code, reason)
    ELSE IF IsCode(error_code, 406) THEN
        Raised("PATSException",
               "Not acceptable (perhaps your IP address has exceeded the API limit?)",
               error_code, reason)
    ELSE IF IsCode(error_code, 409) THEN
        Raised("PATSException",
               "Not approved, the user has yet to approve your retrieve request",
               error_code, reason)
    ELSE IF IsCode(error_code, 500) THEN
        Raised("PATSException", "Internal server error", error_code, reason)
    ELSE
        Raised("PATSException", "Error: " \o reason, error_code, reason)

relay_error(key, error_code, reason) ==
    IF IsCode(error_code, 400) THEN
        Raised("PATSException",
               "Bad Request. The parameters you provided did not validate",
               error_code, reason)
    ELSE IF IsCode(error_code, 401) THEN
        Raised("PATSException",
               reason \o " (Possibly invalid API key) " \o key,
               error_code, reason)
    ELSE IF IsCode(error_code, 404) THEN
        Raised("PATSException", "Not found: " \o reason, error_code, reason)
    ELSE IF IsCode(error_code, 406) THEN
        Raised("PATSException",
               "Not acceptable (perhaps your IP address has exceeded the API limit?)",
               error_code, reason)
    ELSE IF IsCode(error_code, 409) THEN
        Raised("PATSException",
               "Not approved, the user has yet to approve your retrieve request",
               error_code, reason)
    ELSE IF IsCode(error_code, 500) THEN
        Raised("PATSException", "Internal server error", error_code, reason)
    ELSE
        Raised("PATSException", "Error: " \o reason, error_code, reason)

----------------------------------------------------------------------------
(* PATSAPIClient._send_request, from the response on *)

\* AddValidation that puts the separator before every entry, the first included
AddValidationAlwaysSeparated(errorString, errorjs) ==
    LET s1      == errorString \o ", "
        hasName == PyIn("dataName", errorjs) = "yes" /\ errorjs.o["dataName"] # JNull
        s2      == IF hasName THEN s1 \o errorjs.o["dataName"].s \o ": " ELSE s1
        hasMsg  == PyIn("message", errorjs) = "yes"
        s3      == IF hasMsg THEN s2 \o errorjs.o["message"].s ELSE s2
    IN [exc |-> "", s |-> s3]

\* one turn of the loop over js['fieldValidations']: errorString after errorjs
\* (exc is "TypeError" when a member that is no string is concatenated)
AddValidation(errorString, errorjs) ==
    LET s1      == IF errorString # "" THEN errorString \o ", " ELSE errorString
        hasName == PyIn("dataName", errorjs) = "yes" /\ errorjs.o["dataName"] # JNull
        s2      == IF hasName THEN s1 \o errorjs.o["dataName"].s \o ": " ELSE s1
        hasMsg  == PyIn("message", errorjs) = "yes"
        s3      == IF hasMsg THEN s2 \o errorjs.o["message"].s ELSE s2
    IN IF \/ hasName /\ errorjs.o["dataName"].t # "str"
          \/ hasMsg /\ errorjs.o["message"].t # "str"
       THEN [exc |-> "TypeError", s |-> s1]
       ELSE [exc |-> "", s |-> s3]

\* the loop: errorString after the entries i..Len(entries), starting from acc
RECURSIVE ErrorString(_, _, _)
ErrorString(entries, i, acc) ==
    IF i > Len(entries) THEN [exc |-> "", s |-> acc]
    ELSE LET step == AddValidation(acc, entries[i])
         IN IF step.exc # "" THEN step ELSE ErrorString(entries, i + 1, step.s)

\* sometimes the call returns 200 but then has a "FAILED" message in the response
ClassifyFailed(key, js) ==
    LET has == PyIn("status", js)
        st  == PyGetItem(js, "status")
        fv  == PyGetItem(js, "fieldValidations")
    IN IF has = "TypeError" THEN Raised("TypeError", "not iterable", NoCode, "")
       ELSE IF has = "no" THEN Falls
       ELSE IF ~st.ok THEN Raised(st.exc, "status", NoCode, "")
       ELSE IF st.v # JStr("FAILED") THEN Falls
       ELSE IF ~fv.ok THEN Raised(fv.exc, "fieldValidations", NoCode, "")
       ELSE IF fv.v.t # "arr" THEN Raised("TypeError", "not iterable", NoCode, "")
       ELSE LET es == ErrorString(fv.v.a, 1, "")
            IN IF es.exc # "" THEN Raised(es.exc, "cannot concatenate", NoCode, "")
               ELSE relay_error(key, JNum(422), es.s)

\* 422: the details are in the decoded body
Classify422(key, r, js) ==
    IF r.status # 422 THEN Falls
    ELSE LET has  == PyIn("message", js)
             code == PyGetItem(js, "code")
             msg  == PyGetItem(js, "message")
         IN IF has = "TypeError" THEN Raised("TypeError", "not iterable", NoCode, "")
            ELSE IF has = "yes" THEN
                IF ~code.ok THEN Raised(code.exc, "code", NoCode, "")
                ELSE IF ~msg.ok THEN Raised(msg.exc, "message", NoCode, "")
                ELSE relay_error(key, code.v, PyFormat(msg.v))
            ELSE relay_error(key, JNum(r.status), r.text)

\* ClassifyBody that decodes the body before it looks for an empty one
ClassifyBodyDecodeFirst(key, r) ==
    LET d == JSONDecode(r.text)
    IN IF ~d.ok THEN Raised(d.exc, "No JSON object could be decoded", NoCode, "")
       ELSE IF r.text = "" THEN Returned("str", "", JNull)
       ELSE Then(Classify422(key, r, d.v),
            Then(ClassifyFailed(key, d.v),
                 Returned("json", "", d.v)))

\* the body of a 200 or 422 response
ClassifyBody(key, r) ==
    IF r.text = "" THEN Returned("str", "", JNull)
    ELSE LET d == JSONDecode(r.text)
         IN IF ~d.ok THEN Raised(d.exc, "No JSON object could be decoded", NoCode, "")
            ELSE Then(Classify422(key, r, d.v),
                 Then(ClassifyFailed(key, d.v),
                      Returned("json", "", d.v)))

\* the status checks made before the body is looked at
ClassifyStatus(key, r) ==
    Then(IF r.status = 400 THEN relay_error(key, JNum(r.status), r.text) ELSE Falls,
         IF r.status # 200 /\ r.status # 422
         THEN relay_error(key, JNum(r.status), r.reason \o " " \o r.text)
         ELSE Falls)

\* how _send_request ends once it has read response r
send_request(key, r) == Then(ClassifyStatus(key, r), ClassifyBody(key, r))

----------------------------------------------------------------------------
(* The client *)

\* PATSAPIClient(api_key, debug_mode, raw_mode, session), no call made yet
Constructed(key, dbg, raw, snk) ==
    /\ api_key = key
    /\ debug_mode = dbg
    /\ raw_mode = raw
    /\ sink = snk
    /\ session = IF snk.supplied /\ TruthyDict(snk.data) THEN "sink" ELSE "None"
    /\ pc = "idle"
    /\ attempts = 0
    /\ response = NoResponse
    /\ result = NoResult
    /\ request = PlainRequest
    /\ headers = NoHeaders
    /\ args = NoArgs
    /\ kwargs = NoKwargs
    /\ obj = NoObject
    /\ vo = NoOutcome
    /\ op = NoOp

\* a client built with the defaults: no debug mode, no raw mode, no session
Init ==
    /\ \E key \in APIKeys : Constructed(key, FALSE, FALSE, NoSink)
    /\ caller = NoCaller

\* bool(self.raw_mode and self.session)
Capturing == raw_mode /\ session = "sink" /\ TruthyDict(sink.data)

\* a caller enters _send_request with one of the requests rqs: connection,
\* headers, and in raw mode the curl command
CallWith(rqs) ==
    /\ pc \in {"idle", "returned", "raised"}
    /\ \E rq \in rqs :
          /\ request' = rq
          /\ headers' = get_headers(api_key, rq.extra_headers)
          /\ sink' = IF Capturing
                     THEN [sink EXCEPT !.data =
                             DictUpdate(@, [k \in {"curl_command"} |->
                                 JStr(curl_command(rq, get_headers(api_key,
                                                                  rq.extra_headers)))])]
                     ELSE sink
    /\ pc' = "request"
    /\ attempts' = 0
    /\ response' = NoResponse
    /\ result' = NoResult
    /\ UNCHANGED <<api_key, debug_mode, raw_mode, session, object_vars, caller_vars>>

Call == CallWith({PlainRequest})

\* RequestFrom that stores the response whenever a session is set
RequestAlwaysCapturing(resps) ==
    /\ pc = "request"
    /\ attempts' = attempts + 1
    /\ \E r \in resps :
          /\ response' = r
          /\ sink' = IF session = "sink"
                     THEN [sink EXCEPT !.data =
                             DictUpdate(@, [k \in {"response_status", "response_text"} |->
                                 IF k = "response_status" THEN JNum(r.status)
                                 ELSE JStr(r.text)])]
                     ELSE sink
    /\ pc' = "classify"
    /\ UNCHANGED <<api_key, debug_mode, raw_mode, session, result, request, headers,
                   object_vars, caller_vars>>

\* h.request(...); h.getresponse(); response.read(), the server answering
\* with one of resps; in raw mode the status and the text are stored
RequestFrom(resps) ==
    /\ pc = "request"
    /\ attempts' = attempts + 1
    /\ \E r \in resps :
          /\ response' = r
          /\ sink' = IF Capturing
                     THEN [sink EXCEPT !.data =
                             DictUpdate(@, [k \in {"response_status", "response_text"} |->
                                 IF k = "response_status" THEN JNum(r.status)
                                 ELSE JStr(r.text)])]
                     ELSE sink
    /\ pc' = "classify"
    /\ UNCHANGED <<api_key, debug_mode, raw_mode, session, result, request, headers,
                   object_vars, caller_vars>>

Request == RequestFrom(Responses)

\* Classify with a retry loop that treats every 5xx status as retryable
ClassifyRetrying5xx ==
    /\ pc = "classify"
    /\ IF response.status >= 500 /\ attempts < 3
       THEN /\ pc' = "request"
            /\ UNCHANGED result
       ELSE /\ result' = send_request(api_key, response)
            /\ pc' = IF result'.kind = "return" THEN "returned" ELSE "raised"
    /\ UNCHANGED <<client_vars, attempts, response, request, headers, object_vars, caller_vars>>

\* the rest of _send_request: the response is classified and the call ends
Classify ==
    /\ pc = "classify"
    /\ result' = send_request(api_key, response)
    /\ pc' = IF result'.kind = "return" THEN "returned" ELSE "raised"
    /\ UNCHANGED <<client_vars, attempts, response, request, headers, object_vars, caller_vars>>

Next == Call \/ Request \/ Classify

Spec == Init /\ [][Next]_vars

\* a client built with any configuration, making any of the requests
ClientInit ==
    /\ \E key \in APIKeys, dbg \in BOOLEAN, raw \in BOOLEAN, snk \in Sinks :
          Constructed(key, dbg, raw, snk)
    /\ caller = NoCaller

CallAny == CallWith(Requests)

RequestSome == RequestFrom(SomeResponses)

ClientNext == CallAny \/ RequestSome \/ Classify

ClientSpec == ClientInit /\ [][ClientNext]_vars

TypeOK ==
    /\ api_key \in APIKeys
    /\ pc \in {"idle", "request", "classify", "returned", "raised"}
    /\ attempts \in 0..1
    /\ result.kind \in {"none", "return", "raise"}
    /\ debug_mode \in BOOLEAN
    /\ raw_mode \in BOOLEAN
    /\ session \in {"None", "sink"}
    /\ Len(args) \in {0, 1}
    /\ obj.cls \in {"", "CampaignDetails", "InsertionOrderDetails",
                    "InsertionOrderLineItemPrint", "InsertionOrderLineItemDigital",
                    "ProposalLineItemDigital"}
    /\ vo.op \in {"", "__init__", "dict_repr", "setOperation"}
    /\ vo.kind \in {"none", "return", "raise"}
    /\ caller.cls \in {"", "PATSBuyer", "PATSSeller"}
    /\ op.name \in {"", "create_campaign", "list_all_orders", "send_order_revision"}
    /\ op.pc \in {"idle", "loop", "returned", "raised"}

----------------------------------------------------------------------------
(* Properties of _send_request and _relay_error *)

\* the call has ended, by a return or by an exception
Ended == pc \in {"returned", "raised"}

\* the call ended by raising PATSException
RaisedPATS == result.kind = "raise" /\ result.what = "PATSException"

\* the decoded body is an object whose member `key` is `value`
BodyHas(key, value) ==
    LET d == JSONDecode(response.text)
    IN d.ok /\ d.v.t = "obj" /\ key \in DOMAIN d.v.o /\ d.v.o[key] = value

\* the decoded body is an object with a member `key`
BodyHasKey(key) ==
    LET d == JSONDecode(response.text)
    IN d.ok /\ d.v.t = "obj" /\ key \in DOMAIN d.v.o

\* C1: when every response is 504 and the retry bound is 3, the call makes
\* exactly 3 request attempts and then raises a PATSException classified by
\* the last status, 504.
C1_TimeoutRetriedToBound ==
    (pc = "raised" /\ response.status = 504)
        => attempts = 3 /\ RaisedPATS /\ IsCode(result.code, 504)

\* C2: for every response status other than 504 one call makes exactly one
\* HTTP request: the first response is classified and the call ends.
C2_OneAttemptUnlessTimeout ==
    (pc \in {"classify", "returned", "raised"} /\ response.status # 504)
        => /\ attempts = 1
           /\ response \in Responses
           /\ Ended => result.kind \in {"return", "raise"}

C2_Witness ==
    /\ pc = "raised"
    /\ response.status = 500
    /\ attempts = 1
    /\ result.str = "Internal server error"

\* C3: a 201 response returns the value of its Location header when the
\* header is present and raises when it is absent.
C3_CreatedReturnsLocation ==
    (Ended /\ response.status = 201)
        => IF "Location" \in DOMAIN response.headers
           THEN /\ result.kind = "return"
                /\ result.what = "str"
                /\ result.str = response.headers["Location"]
           ELSE result.kind = "raise"

\* C4: a 200 response whose decoded body has a top-level status "FAILED"
\* always makes the call raise PATSException, whatever else the body holds.
C4_FailedAlwaysRaisesPATS ==
    (Ended /\ response.status = 200 /\ BodyHas("status", JStr("FAILED")))
        => RaisedPATS

\* the text the claims give for one fieldValidations entry:
\* "<dataName>: <message>", or "<message>" alone without a dataName
Rendering(e) ==
    (IF "dataName" \in DOMAIN e.o /\ e.o["dataName"] # JNull
     THEN e.o["dataName"].s \o ": " ELSE "")
    \o (IF "message" \in DOMAIN e.o THEN e.o["message"].s ELSE "")

\* the renderings of the entries of the body's fieldValidations list
Renderings ==
    LET l == JSONDecode(response.text).v.o["fieldValidations"].a
    IN [i \in 1..Len(l) |-> Rendering(l[i])]

RECURSIVE DropLeadingEmpty(_)
DropLeadingEmpty(texts) ==
    IF texts # <<>> /\ texts[1] = "" THEN DropLeadingEmpty(Tail(texts)) ELSE texts

\* a 200 response whose body has status "FAILED" and a fieldValidations list
FailedWithList ==
    /\ response.status = 200
    /\ BodyHas("status", JStr("FAILED"))
    /\ BodyHasKey("fieldValidations")
    /\ JSONDecode(response.text).v.o["fieldValidations"].t = "arr"

SingleEntryBody ==
    "{\"status\":\"FAILED\",\"fieldValidations\":"
    \o "[{\"dataName\":\"startDate\",\"message\":\"required\"}]}"

\* C5 as stated: for a 200 response with status "FAILED" the message of the
\* exception is exactly the renderings of the fieldValidations entries in list
\* order joined by ", ", with nothing before or after.
C5_MessageIsJoinedEntries ==
    (Ended /\ FailedWithList)
        => RaisedPATS /\ result.str = Join(Renderings, ", ")

\* C5 as amended: the message is "Error: " followed by the renderings of the
\* entries in list order joined by ", ", where no separator is written as long
\* as everything rendered so far is empty; for the single entry
\* {dataName: startDate, message: required} it is "Error: startDate: required".
C5_MessageIsPrefixedJoin ==
    (Ended /\ FailedWithList)
        => /\ RaisedPATS
           /\ result.str = "Error: " \o Join(DropLeadingEmpty(Renderings), ", ")
           /\ response.text = SingleEntryBody
                 => result.str = "Error: startDate: required"

C5_Witness ==
    /\ pc = "raised"
    /\ FailedWithList
    /\ Len(Renderings) = 2
    /\ result.str = "Error: startDate: required, required"

\* C6: for a 400 response the call raises PATSException with a message that
\* includes the raw response body text verbatim.
C6_BadRequestCarriesBody ==
    (Ended /\ response.status = 400)
        => RaisedPATS /\ Contains(result.str, response.text)

\* C7: a 422 response with a non-empty body always raises PATSException: with a
\* message field in the decoded body the error is classified by the body's code
\* when present and by 422 when absent; without a message field, or with a body
\* that is no JSON, the whole body text is the error text.
C7_UnprocessableAlwaysPATS ==
    (Ended /\ response.status = 422 /\ response.text # "")
        => /\ RaisedPATS
           /\ IF BodyHasKey("message")
              THEN LET js == JSONDecode(response.text).v.o
                   IN /\ result.code = (IF "code" \in DOMAIN js THEN js["code"]
                                         ELSE JNum(422))
                      /\ result.reason = PyFormat(js["message"])
              ELSE /\ result.code = JNum(422)
                   /\ result.reason = response.text

\* C8: when the body is empty and the status is 200 or 422 the call returns ''
\* without raising; the empty body is looked for before the 422 and the
\* soft-failure checks.
C8_EmptyBodyReturnsEmptyString ==
    (Ended /\ response.status \in {200, 422} /\ response.text = "")
        => /\ pc = "returned"
           /\ result.kind = "return"
           /\ result.what = "str"
           /\ result.str = ""

C8_Witness ==
    /\ pc = "returned"
    /\ response.status = 422
    /\ response.text = ""
    /\ result.what = "str"
    /\ result.str = ""

\* C9: for every response the call either returns one of {Location URI, '',
\* decoded JSON value} or raises PATSException; nothing else happens.
C9_ReturnsOrRaisesPATS ==
    Ended => \/ result.kind = "return" /\ result.what \in {"str", "json"}
             \/ RaisedPATS

\* C10: _relay_error never returns: it raises PATSException for every code and
\* reason; the 401 message contains the reason and the API key, the 404 message
\* the reason, the 406, 409 and 500 messages are fixed texts, and the message of
\* an unmapped code is "Error: <reason>".
C10_RelayErrorAlwaysRaises ==
    /\ (Ended /\ response.status \notin {200, 422})
          => result.code = JNum(response.status)
    /\ (Ended /\ response.status = 422 /\ BodyHasKey("message") /\ BodyHasKey("code"))
          => result.code = JSONDecode(response.text).v.o["code"]
    /\ result.code # NoCode
          => /\ pc = "raised"
             /\ RaisedPATS
             /\ IsCode(result.code, 401)
                   => Contains(result.str, result.reason) /\ Contains(result.str, api_key)
             /\ IsCode(result.code, 404) => Contains(result.str, result.reason)
             /\ IsCode(result.code, 406)
                   => result.str = "Not acceptable (perhaps your IP address has "
                                   \o "exceeded the API limit?)"
             /\ IsCode(result.code, 409)
                   => result.str = "Not approved, the user has yet to approve "
                                   \o "your retrieve request"
             /\ IsCode(result.code, 500) => result.str = "Internal server error"
             /\ (\A n \in {400, 401, 404, 406, 409, 500} : ~IsCode(result.code, n))
                   => result.str = "Error: " \o result.reason

C10_Witness ==
    /\ pc = "raised"
    /\ response.status = 422
    /\ IsCode(result.code, 401)
    /\ result.reason = "Invalid order"
    /\ result.str = "Invalid order (Possibly invalid API key) " \o api_key

----------------------------------------------------------------------------
(* Properties of the headers, of raw mode and of the client's state *)

\* _send_request has built the headers of the current call
HeadersBuilt == pc \in {"request", "classify", "returned", "raised"}

\* the current call has read a response
ResponseRead == pc \in {"classify", "returned", "raised"}

CaptureKeys == {"curl_command", "response_status", "response_text"}

\* C11: the headers sent are the base set {User-Agent, Content-Type:
\* application/json, X-MO-API-Key: <api key>} with the caller's extra headers
\* merged over it: every extra key has the caller's value, every base key the
\* caller does not name keeps its base value, and there is no other key.
C11_HeadersAreBaseUpdatedByExtra ==
    HeadersBuilt =>
        LET extra == request.extra_headers
        IN /\ DOMAIN headers =
                {"User-Agent", "Content-Type", "X-MO-API-Key"} \cup DOMAIN extra
           /\ \A k \in DOMAIN extra : headers[k] = extra[k]
           /\ "User-Agent" \notin DOMAIN extra
                => headers["User-Agent"] = "PATS Python Library/0.5"
           /\ "Content-Type" \notin DOMAIN extra
                => headers["Content-Type"] = "application/json"
           /\ "X-MO-API-Key" \notin DOMAIN extra
                => headers["X-MO-API-Key"] = api_key

C11_Witness ==
    /\ pc = "classify"
    /\ attempts = 1
    /\ "X-MO-API-Key" \in DOMAIN request.extra_headers
    /\ headers["X-MO-API-Key"] = "KEY-C"
    /\ headers["Content-Type"] = "text/plain"
    /\ headers["User-Agent"] = "PATS Python Library/0.5"

\* C12: in raw mode, with a session mapping supplied at construction (empty
\* or not), every call writes curl_command to the mapping before the request
\* is sent, and response_status and response_text after the response is read
\* and before it is classified, so that the mapping then holds the status and
\* the body of that response.
C12_RawModeCapturesEveryCall ==
    (raw_mode /\ sink.supplied) =>
        /\ HeadersBuilt =>
              /\ "curl_command" \in DOMAIN sink.data
              /\ sink.data["curl_command"] = JStr(curl_command(request, headers))
        /\ ResponseRead =>
              /\ {"response_status", "response_text"} \subseteq DOMAIN sink.data
              /\ sink.data["response_status"] = JNum(response.status)
              /\ sink.data["response_text"] = JStr(response.text)

\* C13: across any sequence of calls api_key, debug_mode and raw_mode keep
\* their values; the only state written is the three keys curl_command,
\* response_status and response_text of the session mapping, and those only in
\* raw mode with a session; what a call returns or raises is decided by the
\* response alone, whatever raw mode and the mapping are.
C13_OnlyTheCaptureKeysAreWritten ==
    /\ [][ /\ api_key' = api_key
           /\ debug_mode' = debug_mode
           /\ raw_mode' = raw_mode
           /\ session' = session
           /\ sink'.supplied = sink.supplied
           /\ DOMAIN sink.data \subseteq DOMAIN sink'.data
           /\ DOMAIN sink'.data \subseteq DOMAIN sink.data \cup CaptureKeys
           /\ \A k \in DOMAIN sink.data \ CaptureKeys : sink'.data[k] = sink.data[k]
           /\ sink' # sink => raw_mode /\ session = "sink" ]_vars
    /\ [](pc \in {"returned", "raised"} => result = send_request(api_key, response))

C13_Witness ==
    /\ pc = "returned"
    /\ raw_mode
    /\ ~debug_mode
    /\ session = "sink"
    /\ {"user", "response_status", "response_text"} \subseteq DOMAIN sink.data
    /\ sink.data["user"] = JStr("u1")
    /\ sink.data["response_status"] = JNum(200)
    /\ sink.data["response_text"] = JStr("{\"status\":\"OK\"}")
    /\ result.what = "json"

----------------------------------------------------------------------------
(* Value objects: Python values and helpers *)

\* longest external order id InsertionOrderDetails accepts
MaxExternalIdLen == 32

\* datetime.date(y, m, d)
PyDate(y, m, d) == [t |-> "date", y |-> y, m |-> m, d |-> d]

\* True and False
PyBool(b) == [t |-> "bool", b |-> b]

\* marks a keyword the caller does not pass
Absent == [t |-> "absent"]

\* the keyword arguments a caller passes: the members of r that are not Absent
Supplied(r) == [k \in {n \in DOMAIN r : r[n] # Absent} |-> r[k]]

\* bool(v)
Truthy(v) ==
    CASE v.t = "null" -> FALSE
      [] v.t = "bool" -> v.b
      [] v.t = "num"  -> v.n # 0
      [] v.t = "str"  -> v.s # ""
      [] v.t = "arr"  -> Len(v.a) > 0
      [] v.t = "obj"  -> DOMAIN v.o # {}
      [] v.t = "date" -> TRUE

\* isinstance(v, datetime.date)
IsDate(v) == v.t = "date"

\* type(v).__name__
TypeName(v) ==
    CASE v.t = "null" -> "NoneType"
      [] v.t = "bool" -> "bool"
      [] v.t = "num"  -> "int"
      [] v.t = "str"  -> "str"
      [] v.t = "arr"  -> "list"
      [] v.t = "obj"  -> "dict"
      [] v.t = "date" -> "datetime.date"

\* d.get(name, default)
DictGet(d, name, default) == IF name \in DOMAIN d THEN d[name] ELSE default

\* the digits of a number, filled with zeros on the left up to width
RECURSIVE ZeroFill(_, _)
ZeroFill(digits, width) ==
    IF Len(digits) >= width THEN digits ELSE ZeroFill("0" \o digits, width)

\* date.strftime("%Y-%m-%d")
strftime(date) ==
    ZeroFill(ToString(date.y), 4) \o "-" \o ZeroFill(ToString(date.m), 2)
        \o "-" \o ZeroFill(ToString(date.d), 2)

\* "{0:.2f}".format(n) and "{0:.4f}".format(n) of a whole number
FormatFixed(n, places) == ToString(n) \o "." \o ZeroFill("", places)

\* the constructor returned the object [cls, attrs]
Built(cls, attrs) == [kind |-> "built", obj |-> [cls |-> cls, attrs |-> attrs],
                      what |-> "", msg |-> ""]

\* the constructor or dict_repr raised exc(msg)
Failed(exc, msg) == [kind |-> "raise", obj |-> NoObject, what |-> exc, msg |-> msg,
                     dict |-> JNull]

\* dict_repr returned the mapping d
Mapping(d) == [kind |-> "return", obj |-> NoObject, what |-> "dict", msg |-> "",
               dict |-> JObj(d)]

\* v.strftime(...) of a value that is no date
NoStrftime(v) ==
    Failed("AttributeError",
           "'" \o TypeName(v) \o "' object has no attribute 'strftime'")

\* the outcome of cls(*a, **kw), recorded in vo
InitOutcome(cls, r) ==
    [cls |-> cls, op |-> "__init__", mode |-> "", kind |-> IF r.kind = "raise" THEN "raise" ELSE "return",
     what |-> IF r.kind = "raise" THEN r.what ELSE "object", msg |-> r.msg,
     dict |-> JNull]

\* the outcome of obj.dict_repr(mode), recorded in vo
ReprOutcome(cls, mode, r) ==
    [cls |-> cls, op |-> "dict_repr", mode |-> mode, kind |-> r.kind,
     what |-> r.what, msg |-> r.msg, dict |-> r.dict]

\* dates, and values that are no dates, a caller passes for a date field
SomeDates == {PyDate(2015, 2, 1), PyDate(2015, 12, 28)}
NonDates == {JStr(""), JStr("2015-02-01"), JNull}

\* identifiers of 32 and of 33 characters
Id32 == "TestOrder-Monday-NewsUK-1-001-AB"
Id33 == "TestOrder-Monday-NewsUK-1-001-ABC"

----------------------------------------------------------------------------
(* CampaignDetails *)

CampaignKwargs ==
    { Supplied([campaign_name |-> JStr("BQ Monday test campaign 1"),
                start_date |-> sd, end_date |-> ed,
                print_campaign |-> pcm, print_campaign_budget |-> pb,
                digital_campaign |-> dcm, digital_campaign_budget |-> db,
                campaign_budget |-> cb]) :
        sd \in SomeDates \cup {Absent, JStr(""), JStr("2015-02-01")},
        ed \in {PyDate(2015, 2, 28), Absent, JNull},
        pcm \in {Absent, PyBool(TRUE)},
        pb \in {Absent, JNum(0), JNum(500)},
        dcm \in {Absent, PyBool(TRUE)},
        db \in {Absent, JNum(700)},
        cb \in {Absent, JNum(0), JNum(1000)} }

\* the attributes CampaignDetails.__init__ assigns from its keyword arguments
CampaignAttributes(kw) ==
    [organisation_id |-> DictGet(kw, "organisation_id", JStr("")),
     person_id |-> DictGet(kw, "person_id", JStr("")),
     company_id |-> DictGet(kw, "company_id", JStr("")),
     campaign_name |-> DictGet(kw, "campaign_name", JStr("")),
     start_date |-> DictGet(kw, "start_date", JStr("")),
     end_date |-> DictGet(kw, "end_date", JStr("")),
     advertiser_code |-> DictGet(kw, "advertiser_code", JStr("")),
     print_campaign |-> DictGet(kw, "print_campaign", JArr(<< >>)),
     print_campaign_budget |-> DictGet(kw, "print_campaign_budget", JArr(<< >>)),
     digital_campaign |-> DictGet(kw, "digital_campaign", JArr(<< >>)),
     digital_campaign_budget |-> DictGet(kw, "digital_campaign_budget", JArr(<< >>)),
     campaign_budget |-> DictGet(kw, "campaign_budget", JStr("")),
     external_campaign_id |-> DictGet(kw, "external_campaign_id", JStr(""))]

\* CampaignDetails.__init__ with the budget conflict checked as well
CampaignDetails_init_checking_budgets(kw) ==
    LET start_date == DictGet(kw, "start_date", JStr(""))
        end_date == DictGet(kw, "end_date", JStr(""))
    IN IF ~IsDate(start_date) \/ ~IsDate(end_date)
          \/ (Truthy(DictGet(kw, "campaign_budget", JStr("")))
              /\ (Truthy(DictGet(kw, "print_campaign_budget", JArr(<< >>)))
                  \/ Truthy(DictGet(kw, "digital_campaign_budget", JArr(<< >>)))))
       THEN Failed("PATSException", "Campaign can't have both individual budgets and a campaign budget")
       ELSE Built("CampaignDetails", CampaignAttributes(kw))

\* CampaignDetails.__init__ accepting a blank date, as its messages say
CampaignDetails_init_blank_allowed(kw) ==
    LET start_date == DictGet(kw, "start_date", JStr(""))
        end_date == DictGet(kw, "end_date", JStr(""))
    IN IF ~IsDate(start_date) /\ start_date # JStr("")
       THEN Failed("PATSException", "Campaign start date must be a Python date (or blank)")
       ELSE IF ~IsDate(end_date) /\ end_date # JStr("")
       THEN Failed("PATSException", "Campaign end date must be a Python date (or blank)")
       ELSE Built("CampaignDetails", CampaignAttributes(kw))

\* CampaignDetails.__init__(**kw)
CampaignDetails_init(kw) ==
    LET start_date == DictGet(kw, "start_date", JStr(""))
        end_date == DictGet(kw, "end_date", JStr(""))
    IN IF ~IsDate(start_date)
       THEN Failed("PATSException", "Campaign start date must be a Python date (or blank)")
       ELSE IF ~IsDate(end_date)
       THEN Failed("PATSException", "Campaign end date must be a Python date (or blank)")
       ELSE Built("CampaignDetails", CampaignAttributes(kw))

\* the budget check of dict_repr without the digital budget
BudgetConflictPrintOnly(self) ==
    Truthy(self.campaign_budget) /\ Truthy(self.print_campaign_budget)

\* self.campaign_budget and (self.print_campaign_budget or self.digital_campaign_budget)
BudgetConflict(self) ==
    Truthy(self.campaign_budget)
        /\ (Truthy(self.print_campaign_budget) \/ Truthy(self.digital_campaign_budget))

\* a media entry that never carries its budget
MediaEntryWithoutBudget(mix, budget) == JObj([MediaMix |-> JStr(mix)])

\* {"MediaMix": mix}, updated with {"Budget": budget} if there is a budget
MediaEntry(mix, budget) ==
    IF Truthy(budget)
    THEN JObj([MediaMix |-> JStr(mix), Budget |-> budget])
    ELSE JObj([MediaMix |-> JStr(mix)])

\* the list medias of dict_repr
Medias(self) ==
    (IF Truthy(self.print_campaign)
     THEN <<MediaEntry("Print", self.print_campaign_budget)>> ELSE << >>)
    \o (IF Truthy(self.digital_campaign)
        THEN <<MediaEntry("Online", self.digital_campaign_budget)>> ELSE << >>)

\* CampaignDetails.dict_repr()
CampaignDetails_dict_repr(self) ==
    IF ~IsDate(self.start_date) THEN NoStrftime(self.start_date)
    ELSE IF ~IsDate(self.end_date) THEN NoStrftime(self.end_date)
    ELSE IF BudgetConflict(self)
    THEN Failed("PATSException", "Campaign can't have both individual budgets and a campaign budget")
    ELSE LET media_budget ==
                 DictUpdate(IF Truthy(self.campaign_budget)
                            THEN [CampaignBudget |-> self.campaign_budget]
                            ELSE NoKwargs,
                            [Medias |-> JObj([Media |-> JArr(Medias(self))])])
         IN Mapping([CampaignName |-> self.campaign_name,
                     StartDate |-> JStr(strftime(self.start_date)),
                     EndDate |-> JStr(strftime(self.end_date)),
                     Advertiser |-> self.advertiser_code,
                     ExternalDetails |->
                         JObj([CampaignSourceID |-> self.external_campaign_id]),
                     MediaBudget |-> JObj(media_budget)])

----------------------------------------------------------------------------
(* InsertionOrderDetails *)

OrderKwargs ==
    { Supplied([campaign_id |-> JStr("CP1"),
                external_order_id |-> eo, external_publisher_order_id |-> ep,
                respond_by_date |-> rb, message |-> msg]) :
        eo \in {Absent, JStr(""), JStr(Id32), JStr(Id33)},
        ep \in {Absent, JStr(Id32), JStr(Id33)},
        rb \in SomeDates \cup NonDates \cup {Absent},
        msg \in {Absent, JStr("Here's a sample order")} }

\* InsertionOrderDetails.__init__(**kw)
InsertionOrderDetails_init(kw) ==
    LET external_order_id == DictGet(kw, "external_order_id", JStr(""))
        external_publisher_order_id == DictGet(kw, "external_order_id", JStr(""))
    IN IF Len(external_order_id.s) > MaxExternalIdLen
       THEN Failed("PATSException", "Order fails if length of external_order_id is more than 32 characters")
       ELSE IF Len(external_publisher_order_id.s) > MaxExternalIdLen
       THEN Failed("PATSException", "Order fails if length of external_publisher_order_id is more than 32 characters")
       ELSE Built("InsertionOrderDetails",
             [campaign_id |-> DictGet(kw, "campaign_id", JStr("")),
              media_type |-> DictGet(kw, "media_type", JStr("")),
              external_order_id |-> external_order_id,
              external_publisher_order_id |-> external_publisher_order_id,
              publisher_id |-> DictGet(kw, "publisher_id", JStr("")),
              agency_buyer_first_name |-> DictGet(kw, "agency_buyer_first_name", JStr("")),
              agency_buyer_last_name |-> DictGet(kw, "agency_buyer_last_name", JStr("")),
              agency_buyer_email |-> DictGet(kw, "agency_buyer_email", JStr("")),
              order_number |-> DictGet(kw, "order_number", JStr("")),
              recipient_emails |-> DictGet(kw, "recipient_emails", JArr(<< >>)),
              terms_and_conditions |-> DictGet(kw, "terms_and_conditions", JArr(<< >>)),
              respond_by_date |-> DictGet(kw, "respond_by_date", JStr("")),
              additional_info |-> DictGet(kw, "additional_info", JStr("")),
              message |-> DictGet(kw, "message", JStr("")),
              notify_emails |-> DictGet(kw, "notify_emails", JArr(<< >>))])

\* InsertionOrderDetails.dict_repr()
InsertionOrderDetails_dict_repr(self) ==
    IF ~IsDate(self.respond_by_date) THEN NoStrftime(self.respond_by_date)
    ELSE Mapping([externalOrderId |-> self.external_order_id,
                  externalPublisherOrderId |-> self.external_publisher_order_id,
                  publisherId |-> self.publisher_id,
                  agencyBuyerFirstName |-> self.agency_buyer_first_name,
                  agencyBuyerLastName |-> self.agency_buyer_last_name,
                  agencyBuyerEmail |-> self.agency_buyer_email,
                  recipientEmails |-> self.recipient_emails,
                  termsAndConditions |-> self.terms_and_conditions,
                  respondByDate |-> JStr(strftime(self.respond_by_date)),
                  additionalInfo |-> self.additional_info,
                  message |-> self.message,
                  notifyEmails |-> self.notify_emails])

----------------------------------------------------------------------------
(* InsertionOrderLineItem and its print and digital subclasses *)

\* InsertionOrderLineItem.getvar(varname, default, args, kwargs)
getvar(varname, default, a, kw) ==
    IF Len(a) > 0 THEN DictGet(a[1], varname, default)
    ELSE IF DOMAIN kw # {} THEN DictGet(kw, varname, default)
    ELSE JNull

possible_operations == {"Add", "Update", "Delete"}

possible_buy_categories_print ==
    {"Consumer", "Trade", "Classified - National", "Classified - Regional",
     "Display - National", "Display - Regional", "Direct Mail",
     "Directories, i.e. Yellow Pages", "Inserts", "Sponsorship", "Production"}

possible_buy_categories_online ==
    {"Fee - Ad Serving", "Fee - Ad Verification", "Fee - Data", "Fee - Mobile",
     "Fee - Privacy Icon", "Fee - Production", "Fee - Research", "Fee - Search",
     "Fee - Sponsorship", "Fee - Tax", "Fee - Technology", "Fee - Viewability",
     "Fee - Other", "Display", "Display Standard", "Rich Media", "Mobile", "Video",
     "Package", "Roadblock", "Interstitial", "In-Game", "Social", "Sponsorship",
     "Tablet", "Text", "Custom-Other"}

\* value in a list of strings
InStrings(value, strings) == value.t = "str" /\ value.s \in strings

\* the attributes InsertionOrderLineItem.__init__ assigns
LineItemAttributes(a, kw) ==
    [operation |-> getvar("operation", JStr("Add"), a, kw),
     lineNumber |-> getvar("lineNumber", JStr(""), a, kw),
     externalPlacementId |-> getvar("externalPlacementId", JStr(""), a, kw),
     lineItemExternalId |-> getvar("lineItemExternalId", JStr(""), a, kw),
     placementName |-> getvar("placementName", JStr(""), a, kw),
     costMethod |-> getvar("costMethod", JStr(""), a, kw),
     unitType |-> getvar("unitType", JStr(""), a, kw),
     plannedCost |-> getvar("plannedCost", JNull, a, kw),
     buyCategory |-> getvar("buyCategory", JStr(""), a, kw),
     buyType |-> getvar("buyType", JStr(""), a, kw),
     rate |-> getvar("rate", JNull, a, kw),
     section |-> getvar("section", JStr(""), a, kw),
     subsection |-> getvar("subsection", JStr(""), a, kw),
     comments |-> getvar("comments", JStr(""), a, kw),
     packageType |-> getvar("packageType", JStr("Standalone"), a, kw),
     packageName |-> getvar("packageName", JStr(""), a, kw),
     subMediaType |-> getvar("subMediaType", JStr(""), a, kw),
     target |-> getvar("target", JStr(""), a, kw),
     productId |-> getvar("productId", JStr(""), a, kw)]

\* "{0:.<places>f}".format(v): a mapping {key: text}, or the exception
FormatOutcome(key, v, places) ==
    IF v.t = "num" THEN Mapping([k \in {key} |-> JStr(FormatFixed(v.n, places))])
    ELSE IF v.t = "bool"
    THEN Mapping([k \in {key} |-> JStr(FormatFixed(IF v.b THEN 1 ELSE 0, places))])
    ELSE Failed("ValueError", "Unknown format code 'f' for object of type 'str'")

UpdateAlways(cond, d, e) == DictUpdate(d, e)

\* dict.update(e) if cond
UpdateIf(cond, d, e) == IF cond THEN DictUpdate(d, e) ELSE d

CustomColumnsSubsectionOnly(self) ==
    IF Truthy(self.subsection)
    THEN <<JObj([name |-> JStr("SUBSECTION"), value |-> self.subsection])>>
    ELSE << >>

\* customColumns of the seller side
CustomColumns(self) ==
    (IF Truthy(self.subMediaType)
     THEN <<JObj([name |-> JStr("SUBMEDIATYPE"), value |-> self.subMediaType])>>
     ELSE << >>)
    \o (IF Truthy(self.subsection)
        THEN <<JObj([name |-> JStr("SUBSECTION"), value |-> self.subsection])>>
        ELSE << >>)

\* InsertionOrderLineItem.dict_repr(mode)
InsertionOrderLineItem_dict_repr(self, mode) ==
    LET rate == IF self.rate # JNull
                THEN FormatOutcome("rate", self.rate, 4) ELSE Mapping(NoKwargs)
        cost == IF self.plannedCost # JNull
                THEN FormatOutcome("plannedCost", self.plannedCost, 2)
                ELSE Mapping([plannedCost |-> JStr("")])
    IN IF rate.kind = "raise" THEN rate
       ELSE IF cost.kind = "raise" THEN cost
       ELSE
         LET d0 == [lineNumber |-> self.lineNumber,
                    externalPlacementId |-> self.externalPlacementId,
                    packageType |-> self.packageType,
                    costMethod |-> self.costMethod,
                    unitType |-> self.unitType,
                    section |-> self.section,
                    buyCategory |-> self.buyCategory,
                    comments |-> self.comments,
                    target |-> self.target]
             d1 == DictUpdate(DictUpdate(d0, rate.dict.o), cost.dict.o)
             d2 == IF mode = "buyer"
                   THEN DictUpdate(d1, [operation |-> self.operation,
                                        placementName |-> self.placementName,
                                        subsection |-> self.subsection,
                                        subMediaType |-> self.subMediaType])
                   ELSE DictUpdate(d1, [name |-> self.placementName,
                                        buyType |-> self.buyType,
                                        customColumns |-> JArr(CustomColumns(self))])
             d3 == UpdateIf(Truthy(self.externalPlacementId), d2,
                            [externalPlacementId |-> self.externalPlacementId])
             d4 == UpdateIf(Truthy(self.lineItemExternalId), d3,
                            [lineItemExternalId |-> self.lineItemExternalId])
             d5 == UpdateIf(Truthy(self.productId), d4, [productId |-> self.productId])
             d6 == UpdateIf(Truthy(self.packageName), d5,
                            [packageName |-> self.packageName])
         IN Mapping(d6)

\* {key: value.strftime("%Y-%m-%d")} if value: the mapping, or the exception
DateOutcome(key, value) ==
    IF ~Truthy(value) THEN Mapping(NoKwargs)
    ELSE IF ~IsDate(value) THEN NoStrftime(value)
    ELSE Mapping([k \in {key} |-> JStr(strftime(value))])

\* the first outcome of the sequence that is an exception, else the last one
RECURSIVE FirstFailure(_)
FirstFailure(outcomes) ==
    IF Len(outcomes) = 1 \/ Head(outcomes).kind = "raise" THEN Head(outcomes)
    ELSE FirstFailure(Tail(outcomes))

\* InsertionOrderLineItemPrint.__init__(*a, **kw)
InsertionOrderLineItemPrint_init(a, kw) ==
    LET self == LineItemAttributes(a, kw) @@
                [publication |-> getvar("publication", JStr(""), a, kw),
                 size |-> getvar("size", JStr(""), a, kw),
                 color |-> getvar("color", JStr(""), a, kw),
                 units |-> getvar("units", JStr(""), a, kw),
                 printPosition |-> getvar("printPosition", JStr(""), a, kw),
                 region |-> getvar("region", JStr(""), a, kw),
                 isPositionGuaranteed |-> getvar("isPositionGuaranteed", JStr(""), a, kw),
                 includeInDigitalEdition |-> getvar("includeInDigitalEdition", JStr(""), a, kw),
                 coverDate |-> getvar("coverDate", JStr(""), a, kw),
                 saleDate |-> getvar("saleDate", JStr(""), a, kw),
                 sizeNumCols |-> getvar("sizeNumCols", JStr(""), a, kw),
                 sizeNumUnits |-> getvar("sizeNumUnits", JStr(""), a, kw),
                 copyDeadline |-> JNull]
    IN IF ~InStrings(self.buyCategory, possible_buy_categories_print)
       THEN Failed("PATSException", "Buy Category "
                       \o (IF self.buyCategory.t = "str" THEN self.buyCategory.s ELSE "None")
                       \o " not valid.")
       ELSE Built("InsertionOrderLineItemPrint", self)

\* InsertionOrderLineItemPrint.dict_repr(mode)
InsertionOrderLineItemPrint_dict_repr(self, mode) ==
    LET base == InsertionOrderLineItem_dict_repr(self, mode)
        coverDate == DateOutcome("coverDate", self.coverDate)
        saleDate == DateOutcome("saleDate", self.saleDate)
        copyDeadline == DateOutcome("copyDeadline", self.copyDeadline)
        failure == FirstFailure(<<base, coverDate, saleDate, copyDeadline>>)
    IN IF failure.kind = "raise" THEN failure
       ELSE
         LET p0 == [size |-> self.size,
                    color |-> self.color,
                    printPosition |-> self.printPosition,
                    isPositionGuaranteed |-> self.isPositionGuaranteed,
                    includeInDigitalEdition |-> self.includeInDigitalEdition]
             p1 == DictUpdate(DictUpdate(DictUpdate(p0, coverDate.dict.o),
                                         saleDate.dict.o), copyDeadline.dict.o)
             p2 == UpdateIf(Truthy(self.sizeNumCols), p1,
                            [sizeNumCols |-> self.sizeNumCols])
             printInsertion == UpdateIf(Truthy(self.sizeNumUnits), p2,
                                        [sizeNumUnits |-> self.sizeNumUnits])
             d1 == UpdateIf(Truthy(self.units), base.dict.o,
                            [units |-> self.units, operation |-> self.operation])
         IN Mapping(DictUpdate(d1, [publication |-> self.publication,
                                    region |-> self.region,
                                    printInsertion |-> JObj(printInsertion)]))

\* InsertionOrderLineItemDigital.__init__(*a, **kw)
InsertionOrderLineItemDigital_init(a, kw) ==
    LET self == LineItemAttributes(a, kw) @@
                [lineItemId |-> getvar("lineItemId", JNull, a, kw),
                 flightStart |-> getvar("flightStart", JStr(""), a, kw),
                 flightEnd |-> getvar("flightEnd", JStr(""), a, kw),
                 site |-> getvar("site", JStr(""), a, kw),
                 dimensions |-> getvar("dimensions", JStr(""), a, kw),
                 dimensionsPosition |-> getvar("dimensionsPosition", JStr(""), a, kw),
                 servedBy |-> getvar("servedBy", JStr(""), a, kw),
                 unitAmount |-> getvar("unitAmount", JStr(""), a, kw),
                 flighting |-> getvar("flighting", JStr(""), a, kw),
                 primaryPlacement |-> getvar("primaryPlacement", JNull, a, kw)]
    IN IF ~InStrings(self.buyCategory, possible_buy_categories_online)
       THEN Failed("PATSException", "Buy Category "
                       \o (IF self.buyCategory.t = "str" THEN self.buyCategory.s ELSE "None")
                       \o " not valid.")
       ELSE Built("InsertionOrderLineItemDigital", self)

\* flight[key].strftime("%Y-%m-%d")
FlightDate(flight, key) ==
    IF flight.t = "str"
    THEN Failed("TypeError", "string indices must be integers, not str")
    ELSE IF flight.t # "obj"
    THEN Failed("TypeError", "'" \o TypeName(flight)
                                \o "' object has no attribute '__getitem__'")
    ELSE IF key \notin DOMAIN flight.o THEN Failed("KeyError", key)
    ELSE IF ~IsDate(flight.o[key]) THEN NoStrftime(flight.o[key])
    ELSE Mapping([k \in {key} |-> JStr(strftime(flight.o[key]))])

\* one entry of flightingArray: the mapping, or the exception
FlightOutcome(flight) ==
    LET startDate == FlightDate(flight, "startDate")
        endDate == FlightDate(flight, "endDate")
        unitAmount == IF "unitAmount" \in DOMAIN flight.o
                      THEN Mapping([unitAmount |-> flight.o["unitAmount"]])
                      ELSE Failed("KeyError", "unitAmount")
        plannedCost == IF "plannedCost" \in DOMAIN flight.o
                       THEN FormatOutcome("plannedCost", flight.o["plannedCost"], 2)
                       ELSE Failed("KeyError", "plannedCost")
    IN IF startDate.kind = "raise" THEN startDate
       ELSE IF endDate.kind = "raise" THEN endDate
       ELSE IF unitAmount.kind = "raise" THEN unitAmount
       ELSE IF plannedCost.kind = "raise" THEN plannedCost
       ELSE Mapping(DictUpdate(DictUpdate(DictUpdate(startDate.dict.o, endDate.dict.o),
                                          unitAmount.dict.o), plannedCost.dict.o))

\* the loop over self.flighting: {"flighting": flightingArray}, or the exception
FlightingOutcome(flighting) ==
    IF ~Truthy(flighting) THEN Mapping(NoKwargs)
    ELSE IF flighting.t \in {"str", "obj"}
    THEN Failed("TypeError", "string indices must be integers, not str")
    ELSE IF flighting.t # "arr"
    THEN Failed("TypeError", "'" \o TypeName(flighting) \o "' object is not iterable")
    ELSE LET flights == [i \in 1..Len(flighting.a) |-> FlightOutcome(flighting.a[i])]
             failure == FirstFailure(flights)
         IN IF failure.kind = "raise" THEN failure
            ELSE Mapping([flighting |->
                     JArr([i \in 1..Len(flights) |-> flights[i].dict])])

\* InsertionOrderLineItemDigital.dict_repr(mode)
InsertionOrderLineItemDigital_dict_repr(self, mode) ==
    LET base == InsertionOrderLineItem_dict_repr(self, mode)
        flightStart == DateOutcome("flightStart", self.flightStart)
        flightEnd == DateOutcome("flightEnd", self.flightEnd)
        rate == IF Truthy(self.rate)
                THEN FormatOutcome("amount", self.rate, 4) ELSE Mapping(NoKwargs)
        cost == IF Truthy(self.plannedCost)
                THEN FormatOutcome("amount", self.plannedCost, 2) ELSE Mapping(NoKwargs)
        flighting == FlightingOutcome(self.flighting)
        failure == FirstFailure(<<base, flightStart, flightEnd, rate, cost, flighting>>)
    IN IF failure.kind = "raise" THEN failure
       ELSE
         LET d1 == DictUpdate(base.dict.o, [site |-> self.site,
                                            dimensions |-> self.dimensions,
                                            dimensionsPosition |-> self.dimensionsPosition,
                                            servedBy |-> self.servedBy])
             d2 == UpdateIf(mode = "seller" /\ Truthy(self.lineItemId), d1,
                            [lineItemId |-> self.lineItemId])
             d3 == DictUpdate(DictUpdate(d2, flightStart.dict.o), flightEnd.dict.o)
             d4 == UpdateIf(Truthy(self.unitAmount), d3, [unitAmount |-> self.unitAmount])
             d5 == IF ~Truthy(self.rate) THEN d4
                   ELSE IF mode = "buyer"
                   THEN DictUpdate(d4, [rate |-> rate.dict.o["amount"]])
                   ELSE DictUpdate(d4, [rate |-> JObj([amount |-> rate.dict.o["amount"],
                                                       currencyCode |-> JStr("GBP")])])
             d6 == IF ~Truthy(self.plannedCost) THEN d5
                   ELSE IF mode = "buyer"
                   THEN DictUpdate(d5, [plannedCost |-> cost.dict.o["amount"]])
                   ELSE DictUpdate(d5, [cost |-> JObj([amount |-> cost.dict.o["amount"],
                                                       currencyCode |-> JStr("GBP")])])
             d7 == UpdateIf(Truthy(self.primaryPlacement), d6,
                            [primaryPlacement |-> self.primaryPlacement])
         IN Mapping(DictUpdate(d7, flighting.dict.o))

----------------------------------------------------------------------------
(* The value objects as a state machine *)

PrintDicts ==
    { Supplied([lineNumber |-> ln, buyCategory |-> bc,
                externalPlacementId |-> ep, lineItemExternalId |-> le,
                coverDate |-> cd, saleDate |-> sd, rate |-> rt]) :
        ln \in {Absent, JStr("1")},
        bc \in {Absent, JStr("Consumer"), JStr("Display")},
        ep \in {Absent, JStr(Id32), JStr(Id33)},
        le \in {Absent, JStr(Id33)},
        cd \in {Absent, PyDate(2015, 2, 10), JStr("2015-02-10"), JStr("")},
        sd \in {Absent, PyDate(2015, 2, 1), JStr("2015-02-01")},
        rt \in {Absent, JNum(15)} }

GoodFlight ==
    JObj([startDate |-> PyDate(2015, 2, 1), endDate |-> PyDate(2015, 2, 28),
          unitAmount |-> JNum(2000000), plannedCost |-> JNum(30000)])

BadFlight ==
    JObj([startDate |-> PyDate(2015, 2, 1), endDate |-> JStr("2015-02-28"),
          unitAmount |-> JNum(2000000), plannedCost |-> JNum(30000)])

DigitalDicts ==
    { Supplied([buyCategory |-> bc, externalPlacementId |-> ep,
                flightStart |-> fs, flightEnd |-> fe, flighting |-> fl,
                rate |-> rt, plannedCost |-> co, subsection |-> ss,
                lineItemId |-> li]) :
        bc \in {Absent, JStr("Display"), JStr("Consumer")},
        ep \in {Absent, JStr(Id33)},
        fs \in {Absent, PyDate(2015, 2, 1), JStr("2015-02-01")},
        fe \in {Absent, PyDate(2015, 2, 28), JNull},
        fl \in {Absent, JArr(<<GoodFlight>>), JArr(<<GoodFlight, BadFlight>>)},
        rt \in {Absent, JNum(15)},
        co \in {Absent, JNum(30000)},
        ss \in {Absent, JStr("Football")},
        li \in {Absent, JStr("L1")} }

\* the modes a caller passes to a line item's dict_repr
Modes == {"buyer", "seller"}

LineItemClasses == {"InsertionOrderLineItemPrint", "InsertionOrderLineItemDigital"}

\* the model follows one value object at a time: no object is in use
NoneInUse == vo.op = ""

\* cls(*a, **kw): the arguments, the object if one was built, and the outcome
Construct(cls, a, kw, r) ==
    /\ args' = a
    /\ kwargs' = kw
    /\ obj' = r.obj
    /\ vo' = InitOutcome(cls, r)
    /\ UNCHANGED <<client_vars, call_vars, caller_vars>>

NewCampaignDetails ==
    /\ NoneInUse
    /\ \E kw \in CampaignKwargs :
        Construct("CampaignDetails", NoArgs, kw, CampaignDetails_init(kw))

NewInsertionOrderDetails ==
    /\ NoneInUse
    /\ \E kw \in OrderKwargs :
        Construct("InsertionOrderDetails", NoArgs, kw, InsertionOrderDetails_init(kw))

\* a line item built from keyword arguments, or from one dictionary
NewLineItemPrint ==
    /\ NoneInUse
    /\ \E d \in PrintDicts :
        \E a \in {NoArgs, <<d>>} :
            LET kw == IF a = NoArgs THEN d ELSE NoKwargs
            IN Construct("InsertionOrderLineItemPrint", a, kw,
                         InsertionOrderLineItemPrint_init(a, kw))

NewLineItemDigital ==
    /\ NoneInUse
    /\ \E d \in DigitalDicts :
        \E a \in {NoArgs, <<d>>} :
            LET kw == IF a = NoArgs THEN d ELSE NoKwargs
            IN Construct("InsertionOrderLineItemDigital", a, kw,
                         InsertionOrderLineItemDigital_init(a, kw))

\* obj.dict_repr() and obj.dict_repr(mode), by the class of obj
dict_repr(o, mode) ==
    CASE o.cls = "CampaignDetails" -> CampaignDetails_dict_repr(o.attrs)
      [] o.cls = "InsertionOrderDetails" -> InsertionOrderDetails_dict_repr(o.attrs)
      [] o.cls = "InsertionOrderLineItemPrint" ->
             InsertionOrderLineItemPrint_dict_repr(o.attrs, mode)
      [] o.cls = "InsertionOrderLineItemDigital" ->
             InsertionOrderLineItemDigital_dict_repr(o.attrs, mode)

\* dict_repr() of the campaign or order that was built
DictRepr ==
    /\ obj.cls \in {"CampaignDetails", "InsertionOrderDetails"}
    /\ vo' = ReprOutcome(obj.cls, "", dict_repr(obj, ""))
    /\ UNCHANGED <<client_vars, call_vars, caller_vars, args, kwargs, obj>>

\* dict_repr(mode) of the line item that was built
DictReprMode ==
    /\ obj.cls \in LineItemClasses
    /\ \E mode \in Modes : vo' = ReprOutcome(obj.cls, mode, dict_repr(obj, mode))
    /\ UNCHANGED <<client_vars, call_vars, caller_vars, args, kwargs, obj>>

\* the caller is done with the object, or with the exception of its constructor
Forget ==
    /\ vo.op # ""
    /\ args' = NoArgs
    /\ kwargs' = NoKwargs
    /\ obj' = NoObject
    /\ vo' = NoOutcome
    /\ UNCHANGED <<client_vars, call_vars, caller_vars>>

ObjectNext ==
    \/ NewCampaignDetails
    \/ NewInsertionOrderDetails
    \/ NewLineItemPrint
    \/ NewLineItemDigital
    \/ DictRepr
    \/ DictReprMode
    \/ Forget

ObjectSpec == Init /\ [][ObjectNext]_vars

----------------------------------------------------------------------------
(* ProposalLineItemDigital, setOperation, and the line items as a state machine *)

proposal_buy_categories_online ==
    {"Display", "RichMedia", "Mobile", "Video", "Interstitial", "In-Game",
     "Social", "Sponsorship", "Tablet", "Text", "Custom-Other"}

possible_servedby == {"Site", "3rd party", "Other"}

\* the attributes ProposalLineItem.__init__ assigns: every one is kwargs.get
ProposalLineItemAttributes(kw) ==
    [lineItemExternalId |-> DictGet(kw, "lineItemExternalId", JStr("")),
     productId |-> DictGet(kw, "productId", JStr("")),
     productName |-> DictGet(kw, "productName", JStr("")),
     section |-> DictGet(kw, "section", JStr("")),
     subsection |-> DictGet(kw, "subsection", JStr("")),
     subMediaType |-> DictGet(kw, "subMediaType", JStr("")),
     unitType |-> DictGet(kw, "unitType", JStr("")),
     rate |-> DictGet(kw, "rate", JStr("")),
     units |-> DictGet(kw, "units", JStr("")),
     costMethod |-> DictGet(kw, "costMethod", JStr("")),
     periods |-> DictGet(kw, "periods", JArr(<< >>))]

\* ProposalLineItemDigital.__init__(**kw): the category is checked, then servedBy
ProposalLineItemDigital_init(kw) ==
    LET self == ProposalLineItemAttributes(kw) @@
                [site |-> DictGet(kw, "site", JStr("")),
                 buyCategory |-> DictGet(kw, "buyCategory", JStr("")),
                 dimensionsAndPosition |-> DictGet(kw, "dimensionsAndPosition", JStr("")),
                 flightStart |-> DictGet(kw, "flightStart", JStr("")),
                 flightEnd |-> DictGet(kw, "flightEnd", JStr("")),
                 servedBy |-> DictGet(kw, "servedBy", JStr(""))]
    IN IF ~InStrings(self.buyCategory, proposal_buy_categories_online)
       THEN Failed("PATSException", "Buy Category " \o PyFormat(self.buyCategory) \o " not valid.")
       ELSE IF ~InStrings(self.servedBy, possible_servedby)
       THEN Failed("PATSException", "servedBy " \o PyFormat(self.servedBy) \o " not valid.")
       ELSE Built("ProposalLineItemDigital", self)

\* the package types of a line; a caller that passes none gets Standalone
PackageTypes == {Absent, JStr("Package"), JStr("Roadblock"), JStr("Child")}

\* what a caller gives a print line: a category, a package type, no terms or
\* a rate, a cost and units (with Fee as buy type or with none), an operation
\* or none, and the placement fields
PrintTerms ==
    { Supplied([lineNumber |-> JStr("1"), placementName |-> JStr("Back page"),
                buyCategory |-> bc, packageType |-> pt,
                buyType |-> IF tm = "fee" THEN JStr("Fee") ELSE Absent,
                rate |-> IF tm = "none" THEN Absent ELSE JNum(15),
                plannedCost |-> IF tm = "none" THEN Absent ELSE JNum(30000),
                units |-> IF tm = "none" THEN Absent ELSE JNum(3),
                operation |-> on, subsection |-> ss, subMediaType |-> sm]) :
        bc \in {JStr("Consumer"), JStr("Production"), JStr("Display")},
        pt \in PackageTypes,
        tm \in {"none", "terms", "fee"},
        on \in {Absent, JStr("Cancel")},
        ss \in {Absent, JStr("Sport")},
        sm \in {Absent, JStr("Magazine")} }

\* what a caller gives a digital line: as for a print line, with servedBy or
\* an operation or neither, and a lineItemId with the subMediaType
DigitalTerms ==
    { Supplied([lineNumber |-> JStr("1"), placementName |-> JStr("Leaderboard"),
                buyCategory |-> bc, packageType |-> pt,
                buyType |-> IF tm = "fee" THEN JStr("Fee") ELSE Absent,
                rate |-> IF tm = "none" THEN Absent ELSE JNum(15),
                plannedCost |-> IF tm = "none" THEN Absent ELSE JNum(30000),
                unitAmount |-> IF tm = "none" THEN Absent ELSE JNum(2000000),
                operation |-> IF so = "Cancel" THEN JStr(so) ELSE Absent,
                servedBy |-> IF so \in {"Site", "Martian"} THEN JStr(so) ELSE Absent,
                subsection |-> ss, subMediaType |-> sm,
                lineItemId |-> IF sm = Absent THEN Absent ELSE JStr("L1")]) :
        bc \in {JStr("Display"), JStr("Package"), JStr("Consumer")},
        pt \in PackageTypes,
        tm \in {"none", "terms", "fee"},
        so \in {"", "Site", "Martian", "Cancel"},
        ss \in {Absent, JStr("Football")},
        sm \in {Absent, JStr("Video")} }

\* the keyword arguments a caller gives a digital proposal line
ProposalKwargs ==
    { Supplied([buyCategory |-> bc, servedBy |-> sb, rate |-> rt,
                flightStart |-> PyDate(2015, 2, 1), flightEnd |-> PyDate(2015, 2, 28)]) :
        bc \in {Absent, JStr("Display"), JStr("Package")},
        sb \in {Absent, JStr("Site"), JStr("3rd party"), JStr("Other"),
                JStr("Martian"), JNull},
        rt \in {Absent, JNum(15)} }

\* a print line built from keyword arguments
NewPrintLine ==
    /\ NoneInUse
    /\ \E kw \in PrintTerms :
        Construct("InsertionOrderLineItemPrint", NoArgs, kw,
                  InsertionOrderLineItemPrint_init(NoArgs, kw))

\* a digital line built from keyword arguments
NewDigitalLine ==
    /\ NoneInUse
    /\ \E kw \in DigitalTerms :
        Construct("InsertionOrderLineItemDigital", NoArgs, kw,
                  InsertionOrderLineItemDigital_init(NoArgs, kw))

\* a digital proposal line built from keyword arguments
NewProposalLineItemDigital ==
    /\ NoneInUse
    /\ \E kw \in ProposalKwargs :
        Construct("ProposalLineItemDigital", NoArgs, kw,
                  ProposalLineItemDigital_init(kw))

\* the values a caller passes to setOperation
OperationValues == {JStr("Add"), JStr("Update"), JStr("Delete"), JStr("Cancel")}

\* the outcome of obj.setOperation(operation), recorded in vo
SetOutcome(cls, r) ==
    [cls |-> cls, op |-> "setOperation", mode |-> "", kind |-> r.kind,
     what |-> r.what, msg |-> r.msg, dict |-> JNull]

\* setOperation raised nothing and returned None
ReturnedNone == [kind |-> "return", obj |-> NoObject, what |-> "NoneType", msg |-> "",
                 dict |-> JNull]

\* self.setOperation(operation): the new attributes and the outcome
setOperation(self, operation) ==
    IF ~InStrings(operation, possible_operations)
    THEN [attrs |-> self,
          outcome |-> Failed("PATSException",
                             "Operation " \o PyFormat(operation) \o " should be one of "
                                 \o Join(<<"Add", "Update", "Delete">>, ", "))]
    ELSE [attrs |-> [self EXCEPT !.operation = operation], outcome |-> ReturnedNone]

\* obj.setOperation(operation) on the line item that was built
SetOperation ==
    /\ obj.cls \in LineItemClasses
    /\ \E operation \in OperationValues :
        LET r == setOperation(obj.attrs, operation)
        IN /\ args' = <<operation>>
           /\ kwargs' = NoKwargs
           /\ obj' = [obj EXCEPT !.attrs = r.attrs]
           /\ vo' = SetOutcome(obj.cls, r.outcome)
    /\ UNCHANGED <<client_vars, call_vars, caller_vars>>

LineItemNext ==
    \/ NewPrintLine
    \/ NewDigitalLine
    \/ NewProposalLineItemDigital
    \/ DictReprMode
    \/ SetOperation
    \/ Forget

LineItemSpec == Init /\ [][LineItemNext]_vars

----------------------------------------------------------------------------
(* PATSBuyer and PATSSeller: create_campaign, list_all_orders and *)
(* send_order_revision *)

AGENCY_API_DOMAIN == "prisma-demo.api.mediaocean.com"

PUBLISHER_API_DOMAIN == "demo-publishers.api.mediaocean.com"

\* the attributes PATSBuyer.__init__ sets; agency_id is required
PATSBuyer(agency_id, agency_group_id, user_id) ==
    [cls |-> "PATSBuyer", agency_id |-> agency_id,
     agency_group_id |-> agency_group_id, user_id |-> user_id, vendor_id |-> JNull]

\* the attributes PATSSeller.__init__ sets; vendor_id and user_id are required
PATSSeller(vendor_id, user_id) ==
    [cls |-> "PATSSeller", agency_id |-> JNull, agency_group_id |-> JNull,
     user_id |-> user_id, vendor_id |-> vendor_id]

Buyers ==
    { PATSBuyer(JStr("AGENCY1"), g, u) :
        g \in {JNull, JStr("GROUP1")}, u \in {JNull, JStr("buyer@agency")} }

Sellers == { PATSSeller(JStr("VENDOR1"), JStr("seller@vendor")) }

\* the buyer or seller method returned value, having sent requests
CallReturned(value, requests, data) ==
    [kind |-> "return", what |-> "", msg |-> "", value |-> value,
     requests |-> requests, data |-> data]

\* the buyer or seller method raised exc(msg), having sent requests
CallRaised(exc, msg, requests, data) ==
    [kind |-> "raise", what |-> exc, msg |-> msg, value |-> JNull,
     requests |-> requests, data |-> data]

\* json.dumps(v): the text is kept as the value it encodes, Python 2 leaving
\* the order of the members of a mapping to the hash table
json_dumps(v) == [t |-> "text", json |-> v]

\* the arguments of one self._send_request(...) call of a buyer or seller
SentRequest(method, domain, path, extra_headers, body) ==
    [method |-> method, domain |-> domain, path |-> path,
     extra_headers |-> extra_headers, body |-> body]

\* a or b
PyOr(a, b) == IF Truthy(a) THEN a ELSE b

\* what _send_request returned: '' or the decoded body
ReturnValue(sent) == IF sent.what = "str" THEN JStr(sent.str) ELSE sent.js

\* the positions at which marker occurs in text
Occurrences(text, marker) ==
    { i \in 1..(Len(text) - Len(marker) + 1) :
        SubSeq(text, i, i + Len(marker) - 1) = marker }

\* the largest and the smallest member of a set of numbers
Largest(S) == CHOOSE n \in S : \A m \in S : m <= n
Smallest(S) == CHOOSE n \in S : \A m \in S : n <= m

\* re.search('https://(.+)?/campaigns/(.+?)$', uri): group 2, if it matches
CampaignMatch(uri) ==
    LET starts == Occurrences(uri, "https://")
        marks == { c \in Occurrences(uri, "/campaigns/") :
                     /\ \E s \in starts : c >= s + 8
                     /\ c + 11 <= Len(uri) }
    IN IF marks = {} THEN [ok |-> FALSE, group |-> ""]
       ELSE [ok |-> TRUE, group |-> SubSeq(uri, Largest(marks) + 11, Len(uri))]

\* re.search('https?://(.+)?/orders/(.+?)/versions/(.+?)/revisions/(.+?)$',
\* uri): group 4, if it matches
RevisionMatch(uri) ==
    LET ends == {s + 7 : s \in Occurrences(uri, "http://")}
                    \cup {s + 8 : s \in Occurrences(uri, "https://")}
        splits == { <<o, v, r>> \in Occurrences(uri, "/orders/")
                                      \X Occurrences(uri, "/versions/")
                                      \X Occurrences(uri, "/revisions/") :
                      /\ \E e \in ends : o >= e
                      /\ v >= o + 9
                      /\ r >= v + 11
                      /\ r + 11 <= Len(uri) }
    IN IF splits = {} THEN [ok |-> FALSE, group |-> ""]
       ELSE LET o == Largest({t[1] : t \in splits})
                v == Smallest({t[2] : t \in {u \in splits : u[1] = o}})
                r == Smallest({t[3] : t \in {u \in splits : u[1] = o /\ u[2] = v}})
            IN [ok |-> TRUE, group |-> SubSeq(uri, r + 11, Len(uri))]

Digits == "0123456789"

\* text is one or more decimal digits
IsDigits(text) ==
    /\ Len(text) > 0
    /\ \A i \in 1..Len(text) : Occurrences(Digits, SubSeq(text, i, i)) # {}

\* int(text) of decimal digits
RECURSIVE ParseInt(_)
ParseInt(text) ==
    IF Len(text) = 0 THEN 0
    ELSE 10 * ParseInt(SubSeq(text, 1, Len(text) - 1))
            + Smallest(Occurrences(Digits, SubSeq(text, Len(text), Len(text)))) - 1

\* PATSBuyer.create_campaign(campaign_details, user_id), _send_request ending as sent
create_campaign(self, campaign_details, user_id, sent) ==
    IF campaign_details.cls # "CampaignDetails"
    THEN CallRaised("PATSException",
                    "The campaign_details parameter should be a CampaignDetails instance",
                    << >>, JNull)
    ELSE IF "user_id" \notin DOMAIN campaign_details.attrs
    THEN CallRaised("AttributeError",
                    "'CampaignDetails' object has no attribute 'user_id'", << >>, JNull)
    ELSE
      LET user == PyOr(campaign_details.attrs.user_id, user_id)
          organisation_id == PyOr(campaign_details.attrs.organisation_id, self.agency_id)
          extra_headers ==
              [h \in {"Accept", "X-MO-App", "X-MO-Agency-Group-ID",
                      "X-MO-Organization-ID", "X-MO-User-ID"} |->
                  CASE h = "Accept" -> JStr("application/vnd.mediaocean.prisma-v1+json")
                    [] h = "X-MO-App" -> JStr("prisma")
                    [] h = "X-MO-Agency-Group-ID" -> self.agency_group_id
                    [] h = "X-MO-Organization-ID" -> organisation_id
                    [] h = "X-MO-User-ID" -> user]
          body == CampaignDetails_dict_repr(campaign_details.attrs)
          rq == SentRequest("POST", AGENCY_API_DOMAIN, "/campaigns", extra_headers,
                            json_dumps(body.dict))
          campaign_uri == ReturnValue(sent)
          match == CampaignMatch(campaign_uri.s)
      IN IF body.kind = "raise" THEN CallRaised(body.what, body.msg, << >>, JNull)
         ELSE IF sent.kind = "raise"
         THEN CallRaised(sent.what, sent.str, <<rq>>, body.dict)
         ELSE IF campaign_uri.t # "str"
         THEN CallRaised("TypeError", "expected string or buffer", <<rq>>, body.dict)
         ELSE IF ~match.ok
         THEN CallRaised("UnboundLocalError",
                         "local variable 'campaign_id' referenced before assignment",
                         <<rq>>, body.dict)
         ELSE CallReturned(JStr(match.group), <<rq>>, body.dict)

\* '/orders?since=%s&size=%s&page=%s' % (since_date.strftime("%Y-%m-%d"), page_size, page)
OrdersPath(since_date, page_size, page) ==
    "/orders?since=" \o strftime(since_date) \o "&size=" \o ToString(page_size)
        \o "&page=" \o ToString(page)

\* the GET of list_orders and what it returns
OrdersRequest(domain, since_date, page_size, page, extra_headers, sent) ==
    LET rq == SentRequest("GET", domain, OrdersPath(since_date, page_size, page),
                          extra_headers, JNull)
    IN IF sent.kind = "raise" THEN CallRaised(sent.what, sent.str, <<rq>>, JNull)
       ELSE CallReturned(ReturnValue(sent), <<rq>>, JNull)

\* PATSBuyer.list_orders(since_date=, page_size=, page=)
PATSBuyer_list_orders(self, since_date, page_size, page, sent) ==
    IF since_date = JNull
    THEN CallRaised("PATSException", "Since date is required", << >>, JNull)
    ELSE IF ~IsDate(since_date)
    THEN CallRaised("PATSException",
                    "Since date must be a Python date or datetime object", << >>, JNull)
    ELSE LET base == [h \in {"Accept", "X-MO-App", "X-MO-Agency-Group-ID",
                             "X-MO-Organization-ID"} |->
                         CASE h = "Accept" -> JStr("application/vnd.mediaocean.order-v1+json")
                           [] h = "X-MO-App" -> JStr("prisma")
                           [] h = "X-MO-Agency-Group-ID" -> self.agency_group_id
                           [] h = "X-MO-Organization-ID" -> self.agency_id]
             extra_headers == UpdateIf(Truthy(self.user_id), base,
                                       [h \in {"X-MO-User-ID"} |-> self.user_id])
         IN OrdersRequest(AGENCY_API_DOMAIN, since_date, page_size, page,
                          extra_headers, sent)

\* PATSSeller.list_orders(since_date=, page_size=, page=)
PATSSeller_list_orders(self, since_date, page_size, page, sent) ==
    IF since_date = JNull
    THEN CallRaised("PATSException", "Since date is required", << >>, JNull)
    ELSE IF ~IsDate(since_date)
    THEN CallRaised("AttributeError", NoStrftime(since_date).msg, << >>, JNull)
    ELSE LET extra_headers ==
                 [h \in {"Accept", "X-MO-Organization-Id", "X-MO-User-Id", "X-MO-App"} |->
                     CASE h = "Accept" -> JStr("application/vnd.mediaocean.order-v1+json")
                       [] h = "X-MO-Organization-Id" -> self.vendor_id
                       [] h = "X-MO-User-Id" -> self.user_id
                       [] h = "X-MO-App" -> JStr("pats")]
         IN OrdersRequest(PUBLISHER_API_DOMAIN, since_date, page_size, page,
                          extra_headers, sent)

\* self.list_orders of the buyer or of the seller
list_orders(self, since_date, page_size, page, sent) ==
    IF self.cls = "PATSBuyer"
    THEN PATSBuyer_list_orders(self, since_date, page_size, page, sent)
    ELSE PATSSeller_list_orders(self, since_date, page_size, page, sent)

\* the items list.extend(v) appends and len(v) counts: of a list, or of ''
Elements(v) == IF v.t = "arr" THEN v.a ELSE [i \in 1..Len(v.s) |-> JStr(SubSeq(v.s, i, i))]

\* the mode of a dict_repr() call that names none
DefaultMode == "buyer"

\* line_item.dict_repr() of each item, in order: the mappings or the exception
ItemMappings(items) ==
    LET Collected(outcomes) ==
            LET failure == FirstFailure(outcomes)
            IN IF failure.kind = "raise" THEN failure
               ELSE [failure EXCEPT
                        !.dict = JArr([i \in 1..Len(items) |-> outcomes[i].dict])]
    IN Collected([i \in 1..Len(items) |-> dict_repr(items[i], DefaultMode)])

\* PATSSeller.send_order_revision_raw(order_id=, version=, user_id=, data=)
send_order_revision_raw(self, order_id, version, user_id, data, sent) ==
    IF order_id = JNull
    THEN CallRaised("PATSException", "Order ID is required", << >>, JNull)
    ELSE IF version = JNull
    THEN CallRaised("PATSException", "version is required", << >>, JNull)
    ELSE
      LET base == [h \in {"Accept"} |-> JStr("application/vnd.mediaocean.order-v1+json")]
          extra_headers ==
              UpdateIf(Truthy(user_id), base,
                       [h \in {"X-MO-User-Id", "X-MO-Organization-Id", "X-MO-App"} |->
                           CASE h = "X-MO-User-Id" -> user_id
                             [] h = "X-MO-Organization-Id" -> self.vendor_id
                             [] h = "X-MO-App" -> JStr("pats")])
          path == "/orders/" \o PyFormat(order_id) \o "/versions/" \o PyFormat(version)
                      \o "/revisions?operation=send"
          rq == SentRequest("POST", PUBLISHER_API_DOMAIN, path, extra_headers,
                            json_dumps(data))
          order_uri == ReturnValue(sent)
          match == RevisionMatch(order_uri.s)
      IN IF sent.kind = "raise" THEN CallRaised(sent.what, sent.str, <<rq>>, data)
         ELSE IF order_uri.t # "str"
         THEN CallRaised("TypeError", "expected string or buffer", <<rq>>, data)
         ELSE IF ~match.ok
         THEN CallRaised("UnboundLocalError",
                         "local variable 'revision_number' referenced before assignment",
                         <<rq>>, data)
         ELSE IF ~IsDigits(match.group)
         THEN CallRaised("ValueError",
                         "invalid literal for int() with base 10: '"
                             \o match.group \o "'", <<rq>>, data)
         ELSE CallReturned(JNum(ParseInt(match.group)), <<rq>>, data)

\* PATSSeller.send_order_revision(order_id=, version=, user_id=, comment=,
\* print_line_items=, digital_line_items=)
send_order_revision(self, order_id, version, user_id, comment, print_line_items, digital_line_items, sent) ==
    IF order_id = JNull
    THEN CallRaised("PATSException", "order ID is required", << >>, JNull)
    ELSE IF version = JNull
    THEN CallRaised("PATSException", "version is required", << >>, JNull)
    ELSE
      LET Revision(digital, print) ==
              LET d0 == [comment |-> comment]
                  d1 == UpdateIf(Len(digital_line_items) > 0, d0,
                                 [digitalLineItems |-> digital.dict])
                  data == UpdateIf(Len(print_line_items) > 0, d1,
                                   [printLineItems |-> print.dict])
              IN IF digital.kind = "raise"
                 THEN CallRaised(digital.what, digital.msg, << >>, JNull)
                 ELSE IF print.kind = "raise"
                 THEN CallRaised(print.what, print.msg, << >>, JNull)
                 ELSE send_order_revision_raw(self, order_id, version, user_id,
                                              JObj(data), sent)
      IN Revision(IF Len(digital_line_items) > 0
                  THEN ItemMappings(digital_line_items) ELSE Mapping(NoKwargs),
                  IF Len(print_line_items) > 0
                  THEN ItemMappings(print_line_items) ELSE Mapping(NoKwargs))

----------------------------------------------------------------------------
(* The buyer and the seller as a state machine *)

\* page size of list_all_orders
PageSize == 25

\* most pages the server of the model is asked for
MaxPages == 3

\* the lengths of the pages the server answers with
PageLengths == {0, 3, PageSize, PageSize + 1}

\* the orders of a page: the order in a position of a page is no other order
Page(page, length) == [i \in 1..length |-> JNum(100 * page + i)]

\* the revision the server reports, and texts that are no revision
RevisionURI == "https://host/orders/O-1/versions/1/revisions/12"
ReturnedURIs == {RevisionURI, "https://host/campaigns/CP1D9G",
                 "https://host/orders/O-1/versions/1/revisions/latest"}

\* how the _send_request call of a buyer or seller method may end
SendOutcomes ==
    [key \in APIKeys |->
        {send_request(key, r) : r \in SomeResponses}
            \cup {Returned("json", "", JStr(uri)) : uri \in ReturnedURIs}]

\* how the _send_request call of list_orders may end for a page
PageOutcomes ==
    [key \in APIKeys, page \in 1..MaxPages |->
        {Returned("json", "", JArr(Page(page, length))) : length \in PageLengths}
            \cup {send_request(key, r) :
                    r \in {x \in SomeResponses : x.status # 200 \/ x.text = ""}}]

\* the values a caller passes as since_date
SinceDates == {JNull, PyDate(2015, 2, 1), JStr("2015-02-01")}

\* a buyer or a seller built with the defaults of PATSAPIClient
CallerInit ==
    /\ \E key \in APIKeys : Constructed(key, FALSE, FALSE, NoSink)
    /\ caller \in Buyers \cup Sellers

\* no buyer or seller method is in progress
Idle == op.name = ""

\* the method name ended as r
OpOutcome(name, r) ==
    [NoOp EXCEPT !.name = name,
                 !.pc = IF r.kind = "raise" THEN "raised" ELSE "returned",
                 !.requests = r.requests, !.data = r.data,
                 !.what = r.what, !.msg = r.msg, !.value = r.value]

\* list_all_orders(since_date=since) up to the loop
ListAllOrders ==
    /\ Idle
    /\ \E since \in SinceDates :
          op' = [NoOp EXCEPT !.name = "list_all_orders", !.pc = "loop",
                             !.since = since, !.page = 1]
    /\ UNCHANGED <<client_vars, call_vars, object_vars, caller>>

\* one round of a loop that goes on until a page is empty
ListPageUntilEmpty ==
    /\ op.name = "list_all_orders"
    /\ op.pc = "loop"
    /\ op.page <= MaxPages
    /\ \E sent \in PageOutcomes[api_key, op.page] :
          LET r == list_orders(caller, op.since, PageSize, op.page, sent)
              partial_json_list == Elements(r.value)
              remaining_content == Len(partial_json_list) > 0
          IN op' = IF r.kind = "raise"
                   THEN [op EXCEPT !.pc = "raised", !.requests = @ \o r.requests,
                                   !.what = r.what, !.msg = r.msg]
                   ELSE [op EXCEPT !.pc = IF remaining_content THEN "loop" ELSE "returned",
                                   !.full = @ \o partial_json_list,
                                   !.page = @ + 1,
                                   !.requests = @ \o r.requests,
                                   !.fetched = Append(@, r.value),
                                   !.value = IF remaining_content THEN JNull
                                             ELSE JArr(op.full \o partial_json_list)]
    /\ UNCHANGED <<client_vars, call_vars, object_vars, caller>>

\* one round of the loop of list_all_orders: list_orders, extend, the next
\* page, and the return when the page is not full
ListPage ==
    /\ op.name = "list_all_orders"
    /\ op.pc = "loop"
    /\ op.page <= MaxPages
    /\ \E sent \in PageOutcomes[api_key, op.page] :
          LET r == list_orders(caller, op.since, PageSize, op.page, sent)
              partial_json_list == Elements(r.value)
              remaining_content == Len(partial_json_list) = PageSize
          IN op' = IF r.kind = "raise"
                   THEN [op EXCEPT !.pc = "raised", !.requests = @ \o r.requests,
                                   !.what = r.what, !.msg = r.msg]
                   ELSE [op EXCEPT !.pc = IF remaining_content THEN "loop" ELSE "returned",
                                   !.full = @ \o partial_json_list,
                                   !.page = @ + 1,
                                   !.requests = @ \o r.requests,
                                   !.fetched = Append(@, r.value),
                                   !.value = IF remaining_content THEN JNull
                                             ELSE JArr(op.full \o partial_json_list)]
    /\ UNCHANGED <<client_vars, call_vars, object_vars, caller>>

\* the caller is done with what the method returned or raised
Done ==
    /\ op.pc \in {"returned", "raised"}
    /\ op' = NoOp
    /\ UNCHANGED <<client_vars, call_vars, object_vars, caller>>

PagingNext == ListAllOrders \/ ListPage \/ Done

\* the loop is the only thing the thread does: it takes its next round
PagingSpec == CallerInit /\ [][PagingNext]_vars /\ WF_vars(ListPage)

\* the keyword arguments of a campaign a buyer creates
CampaignIds ==
    { Supplied([campaign_name |-> JStr("BQ Monday test campaign 1"),
                start_date |-> PyDate(2015, 2, 1), end_date |-> ed,
                organisation_id |-> org, person_id |-> person,
                campaign_budget |-> cb, print_campaign_budget |-> pb]) :
        ed \in {PyDate(2015, 2, 28), Absent},
        org \in {Absent, JStr("ORG7")},
        person \in {Absent, JStr("amh1")},
        cb \in {Absent, JNum(1000)},
        pb \in {Absent, JNum(500)} }

\* a buyer builds a campaign for create_campaign
NewCampaign ==
    /\ NoneInUse
    /\ Idle
    /\ caller.cls = "PATSBuyer"
    /\ \E kw \in CampaignIds :
        Construct("CampaignDetails", NoArgs, kw, CampaignDetails_init(kw))

\* buyer.create_campaign(obj, user_id): the whole call
CreateCampaign ==
    /\ Idle
    /\ caller.cls = "PATSBuyer"
    /\ \E user_id \in {JNull, JStr("planner@agency")}, sent \in SendOutcomes[api_key] :
          op' = OpOutcome("create_campaign", create_campaign(caller, obj, user_id, sent))
    /\ UNCHANGED <<client_vars, call_vars, object_vars, caller>>

\* seller.send_order_revision(...) with the line item that was built, in the
\* list of its media type: the whole call
SendOrderRevision ==
    /\ Idle
    /\ caller.cls = "PATSSeller"
    /\ obj.cls \in LineItemClasses
    /\ \E order_id \in {JNull, JStr("O-1")}, version \in {JNull, JNum(1)},
          user_id \in {JNull, JStr("seller@vendor")}, sent \in SendOutcomes[api_key] :
          LET print_line_items == IF obj.cls = "InsertionOrderLineItemPrint"
                                  THEN <<obj>> ELSE << >>
              digital_line_items == IF obj.cls = "InsertionOrderLineItemDigital"
                                    THEN <<obj>> ELSE << >>
          IN op' = OpOutcome("send_order_revision",
                       send_order_revision(caller, order_id, version, user_id,
                                           JStr("Revised"), print_line_items,
                                           digital_line_items, sent))
    /\ UNCHANGED <<client_vars, call_vars, object_vars, caller>>

\* a seller builds the line item of a revision: a Standalone line without a
\* buy type
BuildPrintLine ==
    /\ Idle
    /\ caller.cls = "PATSSeller"
    /\ NoneInUse
    /\ \E kw \in {k \in PrintTerms : DOMAIN k \cap {"packageType", "buyType"} = {}} :
        Construct("InsertionOrderLineItemPrint", NoArgs, kw,
                  InsertionOrderLineItemPrint_init(NoArgs, kw))

BuildDigitalLine ==
    /\ Idle
    /\ caller.cls = "PATSSeller"
    /\ NoneInUse
    /\ \E kw \in {k \in DigitalTerms : DOMAIN k \cap {"packageType", "buyType"} = {}} :
        Construct("InsertionOrderLineItemDigital", NoArgs, kw,
                  InsertionOrderLineItemDigital_init(NoArgs, kw))

CallerNext ==
    \/ NewCampaign
    \/ BuildPrintLine
    \/ BuildDigitalLine
    \/ CreateCampaign
    \/ SendOrderRevision
    \/ Forget
    \/ Done

CallerSpec == CallerInit /\ [][CallerNext]_vars

\* the dictionary the latest constructor call read its arguments from
CallArguments == IF Len(args) > 0 THEN args[1] ELSE kwargs

\* the caller passed a string longer than n as argument name
LongArgument(name, n) ==
    /\ name \in DOMAIN CallArguments
    /\ CallArguments[name].t = "str"
    /\ Len(CallArguments[name].s) > n

\* the latest operation was the constructor of cls / dict_repr of a cls object
Constructing(cls) == vo.cls = cls /\ vo.op = "__init__"
Serializing(cls) == vo.cls = cls /\ vo.op = "dict_repr"

VORaised(exc) == vo.kind = "raise" /\ vo.what = exc

----------------------------------------------------------------------------
(* Properties of the value objects *)

\* the value the caller passed as argument name, Absent if the caller passed none
Argument(name) == DictGet(CallArguments, name, Absent)

\* the caller passed a value as argument name and bool(value) is True
TruthyArgument(name) == Argument(name) # Absent /\ Truthy(Argument(name))

\* the message of the budget conflict
BudgetConflictMessage == "Campaign can't have both individual budgets and a campaign budget"

\* the MediaBudget mapping and the media list of a campaign's wire mapping
MediaBudgetOf(d) == d.o["MediaBudget"].o
MediaListOf(d) == MediaBudgetOf(d)["Medias"].o["Media"].a

\* some entry of the media list carries a Budget
CarriesMediaBudget(d) ==
    \E i \in 1..Len(MediaListOf(d)) : "Budget" \in DOMAIN MediaListOf(d)[i].o

\* s is four digits, "-", two digits, "-", two digits
IsYMD(s) ==
    /\ Len(s) = 10
    /\ SubSeq(s, 5, 5) = "-"
    /\ SubSeq(s, 8, 8) = "-"
    /\ \A i \in {1, 2, 3, 4, 6, 7, 9, 10} :
          SubSeq(s, i, i) \in {"0", "1", "2", "3", "4", "5", "6", "7", "8", "9"}

\* C14: constructing InsertionOrderDetails raises PATSException whenever the
\* external_order_id passed is longer than 32 characters and whenever the
\* external_publisher_order_id passed is longer than 32 characters, each
\* independently of the other; no InsertionOrderDetails object has either
\* identifier longer than 32 characters.
C14_LongOrderIdsAreRejected ==
    /\ (/\ Constructing("InsertionOrderDetails")
        /\ \/ LongArgument("external_order_id", 32)
           \/ LongArgument("external_publisher_order_id", 32))
          => VORaised("PATSException")
    /\ obj.cls = "InsertionOrderDetails" =>
          /\ Len(obj.attrs.external_order_id.s) <= 32
          /\ Len(obj.attrs.external_publisher_order_id.s) <= 32

\* C15: constructing a print or digital line item whose externalPlacementId
\* or lineItemExternalId is longer than 32 characters raises at construction,
\* so no line item object carries such an identifier.
C15_LongLineItemIdsAreRejected ==
    /\ (/\ vo.cls \in LineItemClasses
        /\ vo.op = "__init__"
        /\ \/ LongArgument("externalPlacementId", 32)
           \/ LongArgument("lineItemExternalId", 32))
          => vo.kind = "raise"
    /\ obj.cls \in LineItemClasses =>
          /\ obj.attrs.externalPlacementId.t = "str"
                => Len(obj.attrs.externalPlacementId.s) <= 32
          /\ obj.attrs.lineItemExternalId.t = "str"
                => Len(obj.attrs.lineItemExternalId.s) <= 32

\* C16: CampaignDetails.dict_repr raises PATSException whenever the object has
\* a campaign budget and a print or digital budget set, and no mapping it
\* returns carries both CampaignBudget and a Budget of a media entry.
C16_BudgetConflictRaisesAtSerialization ==
    Serializing("CampaignDetails") =>
        /\ (/\ Truthy(obj.attrs.campaign_budget)
            /\ \/ Truthy(obj.attrs.print_campaign_budget)
               \/ Truthy(obj.attrs.digital_campaign_budget))
              => VORaised("PATSException") /\ vo.msg = BudgetConflictMessage
        /\ vo.kind = "return" =>
              ~("CampaignBudget" \in DOMAIN MediaBudgetOf(vo.dict)
                    /\ CarriesMediaBudget(vo.dict))

C16_Witness ==
    /\ Serializing("CampaignDetails")
    /\ VORaised("PATSException")
    /\ obj.attrs.campaign_budget = JNum(1000)
    /\ ~Truthy(obj.attrs.print_campaign_budget)
    /\ obj.attrs.digital_campaign_budget = JNum(700)

\* a campaign budget and a print or digital budget were passed to the constructor
BudgetConflictPassed ==
    /\ TruthyArgument("campaign_budget")
    /\ TruthyArgument("print_campaign_budget") \/ TruthyArgument("digital_campaign_budget")

\* C17 as claimed: passing both a campaign budget and a per-media budget to
\* CampaignDetails raises at construction.
C17_BudgetConflictRaisesAtConstruction ==
    (Constructing("CampaignDetails") /\ BudgetConflictPassed) => vo.kind = "raise"

\* C17: passing both a campaign budget and a per-media budget to
\* CampaignDetails does not raise at construction: with two dates the
\* constructor returns the object, and dict_repr of that object raises
\* PATSException.
C17_BudgetConflictRaisesOnlyAtSerialization ==
    /\ (/\ Constructing("CampaignDetails")
        /\ BudgetConflictPassed
        /\ IsDate(Argument("start_date"))
        /\ IsDate(Argument("end_date")))
          => vo.kind = "return" /\ obj.cls = "CampaignDetails"
    /\ (Serializing("CampaignDetails") /\ BudgetConflictPassed)
          => VORaised("PATSException") /\ vo.msg = BudgetConflictMessage

C17_Witness ==
    /\ Serializing("CampaignDetails")
    /\ BudgetConflictPassed
    /\ Argument("print_campaign_budget") = JNum(500)
    /\ VORaised("PATSException")

\* the media entry {"MediaMix": mix, "Budget": budget}
BudgetedEntry(mix, budget) == JObj([MediaMix |-> JStr(mix), Budget |-> budget])

\* a print budget and a digital budget are set and no campaign budget is
TwoMediaBudgets ==
    /\ Serializing("CampaignDetails")
    /\ Truthy(obj.attrs.print_campaign_budget)
    /\ Truthy(obj.attrs.digital_campaign_budget)
    /\ ~Truthy(obj.attrs.campaign_budget)

\* C18 as claimed: with a print budget, a digital budget and no campaign
\* budget, whatever the other fields are, dict_repr returns a mapping whose
\* media list is one Print and one Online entry, each with its Budget, and
\* that has no CampaignBudget.
C18_TwoBudgetsGiveTwoEntries ==
    TwoMediaBudgets =>
        /\ vo.kind = "return"
        /\ Len(MediaListOf(vo.dict)) = 2
        /\ \E i \in 1..2 : MediaListOf(vo.dict)[i]
                              = BudgetedEntry("Print", obj.attrs.print_campaign_budget)
        /\ \E i \in 1..2 : MediaListOf(vo.dict)[i]
                              = BudgetedEntry("Online", obj.attrs.digital_campaign_budget)
        /\ "CampaignBudget" \notin DOMAIN MediaBudgetOf(vo.dict)

\* C18: with a print budget, a digital budget and no campaign budget,
\* dict_repr returns a mapping without CampaignBudget whose media list holds
\* the Print entry with its Budget exactly when print_campaign is set, followed
\* by the Online entry with its Budget exactly when digital_campaign is set:
\* two entries when both are set.
C18_FlaggedBudgetsGiveTwoEntries ==
    TwoMediaBudgets =>
        /\ vo.kind = "return"
        /\ "CampaignBudget" \notin DOMAIN MediaBudgetOf(vo.dict)
        /\ MediaListOf(vo.dict) =
              (IF Truthy(obj.attrs.print_campaign)
               THEN <<BudgetedEntry("Print", obj.attrs.print_campaign_budget)>>
               ELSE << >>)
              \o (IF Truthy(obj.attrs.digital_campaign)
                  THEN <<BudgetedEntry("Online", obj.attrs.digital_campaign_budget)>>
                  ELSE << >>)

C18_Witness ==
    /\ TwoMediaBudgets
    /\ Truthy(obj.attrs.print_campaign)
    /\ Truthy(obj.attrs.digital_campaign)
    /\ vo.kind = "return"
    /\ Len(MediaListOf(vo.dict)) = 2

DateArguments(cls) ==
    CASE cls = "InsertionOrderDetails" -> {"respond_by_date"}
      [] cls = "InsertionOrderLineItemPrint" -> {"coverDate", "saleDate", "copyDeadline"}
      [] cls = "InsertionOrderLineItemDigital" -> {"flightStart", "flightEnd"}
      [] OTHER -> {}

\* the caller passed a value that is set and is no date for a date argument,
\* or a flighting period with such a value
NonDatePassed ==
    \/ \E name \in DateArguments(vo.cls) :
          TruthyArgument(name) /\ ~IsDate(Argument(name))
    \/ /\ vo.cls = "InsertionOrderLineItemDigital"
       /\ Argument("flighting") # Absent
       /\ Argument("flighting").t = "arr"
       /\ \E i \in 1..Len(Argument("flighting").a) :
             \E key \in {"startDate", "endDate"} :
                 ~IsDate(Argument("flighting").a[i].o[key])

\* C20: for the date fields of InsertionOrderDetails and of the line items, a
\* value that is no date fails at construction, and dict_repr of an object
\* that was constructed never fails because of a date field.
C20_NonDatesFailAtConstruction ==
    /\ (vo.op = "__init__" /\ NonDatePassed) => vo.kind = "raise"
    /\ (vo.op = "dict_repr" /\ vo.cls \in {"InsertionOrderDetails"} \cup LineItemClasses)
          => ~(VORaised("AttributeError") /\ Contains(vo.msg, "strftime"))

----------------------------------------------------------------------------
(* Properties of the line items *)

\* the wire mapping has the key
HasKey(d, key) == key \in DOMAIN d.o

\* the latest operation was a line item's dict_repr and it returned a mapping
LineSerialized ==
    /\ vo.cls \in LineItemClasses
    /\ vo.op = "dict_repr"
    /\ vo.kind = "return"

\* the buy categories of the media type of cls
CategoriesOf(cls) ==
    IF cls = "InsertionOrderLineItemPrint" THEN possible_buy_categories_print
    ELSE possible_buy_categories_online

\* the package type the caller passed, Standalone if none was passed
PackageTypePassed == DictGet(CallArguments, "packageType", JStr("Standalone"))

\* the categories named after a package role are for the lines of that role
AllowedForLine(cls, packageType, category) ==
    /\ InStrings(category, CategoriesOf(cls))
    /\ category.s \in {"Package", "Roadblock"} => packageType = category

C22_ServedByIsValidated ==
    (/\ vo.cls \in {"InsertionOrderLineItemDigital", "ProposalLineItemDigital"}
     /\ vo.op = "__init__"
     /\ Argument("servedBy") # Absent
     /\ ~InStrings(Argument("servedBy"), possible_servedby))
        => VORaised("PATSException")

\* C23: in the mapping a line item's dict_repr returns, buyType and
\* buyCategory are present when packageType is Standalone or Child and absent
\* when packageType is Roadblock or Package.
C23_BuyFieldsFollowPackageType ==
    LineSerialized =>
        /\ obj.attrs.packageType \in {JStr("Standalone"), JStr("Child")}
              => HasKey(vo.dict, "buyType") /\ HasKey(vo.dict, "buyCategory")
        /\ obj.attrs.packageType \in {JStr("Roadblock"), JStr("Package")}
              => ~HasKey(vo.dict, "buyType") /\ ~HasKey(vo.dict, "buyCategory")

\* the keys of the units, the cost and the rate of a line
TermKeys == {"units", "unitAmount", "plannedCost", "cost", "rate"}

\* the units, the cost and the rate the line item holds
TermsSet ==
    /\ Truthy(obj.attrs.rate)
    /\ Truthy(obj.attrs.plannedCost)
    /\ Truthy(IF obj.cls = "InsertionOrderLineItemPrint"
              THEN obj.attrs.units ELSE obj.attrs.unitAmount)

\* C24: in the mapping a line item's dict_repr returns, the unit, cost and
\* rate fields are absent when packageType is Child, rate is absent when the
\* buy type is a flat fee, and for the other lines that hold them the units,
\* the cost and the rate are present.
C24_TermsFollowPackageType ==
    LineSerialized =>
        /\ obj.attrs.packageType = JStr("Child")
              => \A key \in TermKeys : ~HasKey(vo.dict, key)
        /\ obj.attrs.buyType = JStr("Fee") => ~HasKey(vo.dict, "rate")
        /\ (/\ obj.attrs.packageType # JStr("Child")
            /\ obj.attrs.buyType # JStr("Fee")
            /\ TermsSet)
              => /\ HasKey(vo.dict, "rate")
                 /\ HasKey(vo.dict, "plannedCost")
                 /\ HasKey(vo.dict, "units") \/ HasKey(vo.dict, "unitAmount")

\* the {name, value} pair of a custom column
ColumnPair(name, value) == JObj([name |-> JStr(name), value |-> value])

\* the pairs of the values of the line item that are set
ColumnsSet ==
    (IF Truthy(obj.attrs.subMediaType) THEN {ColumnPair("SUBMEDIATYPE", obj.attrs.subMediaType)} ELSE {})
    \cup (IF Truthy(obj.attrs.subsection) THEN {ColumnPair("SUBSECTION", obj.attrs.subsection)} ELSE {})

\* C25: a line item serialized in buyer role has top-level placementName,
\* subsection and subMediaType and no name or customColumns; serialized in
\* seller role it has the placement name under name, no top-level
\* placementName, subsection or subMediaType, and a customColumns list that
\* holds the SUBMEDIATYPE pair and the SUBSECTION pair of each of those values
\* that is set, and nothing else.
C25_RolesPlaceThePlacementFields ==
    LineSerialized =>
        /\ vo.mode = "buyer" =>
              /\ HasKey(vo.dict, "placementName")
              /\ vo.dict.o["placementName"] = obj.attrs.placementName
              /\ HasKey(vo.dict, "subsection")
              /\ vo.dict.o["subsection"] = obj.attrs.subsection
              /\ HasKey(vo.dict, "subMediaType")
              /\ vo.dict.o["subMediaType"] = obj.attrs.subMediaType
              /\ ~HasKey(vo.dict, "name")
              /\ ~HasKey(vo.dict, "customColumns")
        /\ vo.mode = "seller" =>
              /\ HasKey(vo.dict, "name")
              /\ vo.dict.o["name"] = obj.attrs.placementName
              /\ ~HasKey(vo.dict, "placementName")
              /\ ~HasKey(vo.dict, "subsection")
              /\ ~HasKey(vo.dict, "subMediaType")
              /\ HasKey(vo.dict, "customColumns")
              /\ vo.dict.o["customColumns"].t = "arr"
              /\ LET columns == vo.dict.o["customColumns"].a
                 IN /\ {columns[i] : i \in 1..Len(columns)} = ColumnsSet
                    /\ Len(columns) = Cardinality(ColumnsSet)

C25_Witness ==
    /\ LineSerialized
    /\ vo.mode = "seller"
    /\ vo.dict.o["name"] = JStr("Leaderboard")
    /\ vo.dict.o["customColumns"] =
          JArr(<<ColumnPair("SUBMEDIATYPE", JStr("Video")),
                 ColumnPair("SUBSECTION", JStr("Football"))>>)

\* the two mappings of the digital line item that was serialized
BuyerMapping == InsertionOrderLineItemDigital_dict_repr(obj.attrs, "buyer").dict.o
SellerMapping == InsertionOrderLineItemDigital_dict_repr(obj.attrs, "seller").dict.o

\* a digital line item was serialized
DigitalSerialized ==
    /\ LineSerialized
    /\ vo.cls = "InsertionOrderLineItemDigital"

\* C26 as claimed: the buyer and the seller mapping of a digital line item
\* differ only in placementName/name and in subsection and subMediaType moving
\* into customColumns; every other key is in both, with the same value.
C26_RolesDifferOnlyInPlacementFields ==
    DigitalSerialized =>
        /\ DOMAIN BuyerMapping \ {"placementName", "subsection", "subMediaType"}
              = DOMAIN SellerMapping \ {"name", "customColumns"}
        /\ \A key \in DOMAIN BuyerMapping \ {"placementName", "subsection", "subMediaType"} :
              BuyerMapping[key] = SellerMapping[key]
        /\ SellerMapping["name"] = BuyerMapping["placementName"]

\* C26: the call made returned one of the two mappings; the keys of the buyer
\* mapping alone are operation, placementName, subsection and subMediaType;
\* the keys of the seller mapping alone are name, buyType and customColumns,
\* lineItemId when it is set and cost when a planned cost is set; a rate that
\* is set is a string for the buyer and {amount: that string, currencyCode:
\* GBP} for the seller; every other key is in both with the same value.
C26_RolesDifferInRoleFields ==
    DigitalSerialized =>
        /\ vo.dict.o = (IF vo.mode = "buyer" THEN BuyerMapping ELSE SellerMapping)
        /\ DOMAIN BuyerMapping \ DOMAIN SellerMapping
              = {"operation", "placementName", "subsection", "subMediaType"}
        /\ DOMAIN SellerMapping \ DOMAIN BuyerMapping
              = {"name", "buyType", "customColumns"}
                  \cup (IF Truthy(obj.attrs.lineItemId) THEN {"lineItemId"} ELSE {})
                  \cup (IF Truthy(obj.attrs.plannedCost) THEN {"cost"} ELSE {})
        /\ SellerMapping["name"] = BuyerMapping["placementName"]
        /\ \A key \in (DOMAIN BuyerMapping \cap DOMAIN SellerMapping) \ {"rate"} :
              BuyerMapping[key] = SellerMapping[key]
        /\ Truthy(obj.attrs.rate) =>
              /\ BuyerMapping["rate"].t = "str"
              /\ SellerMapping["rate"] = JObj([amount |-> BuyerMapping["rate"],
                                               currencyCode |-> JStr("GBP")])
        /\ (~Truthy(obj.attrs.rate) /\ "rate" \in DOMAIN BuyerMapping)
              => BuyerMapping["rate"] = SellerMapping["rate"]

C26_Witness ==
    /\ DigitalSerialized
    /\ vo.mode = "seller"
    /\ obj.attrs.lineItemId = JStr("L1")
    /\ obj.attrs.rate = JNum(15)
    /\ HasKey(vo.dict, "cost")
    /\ "operation" \in DOMAIN BuyerMapping

\* C29: a line item that was constructed, with any arguments and after any
\* setOperation calls, has one of Add, Update, Delete as its operation; a
\* setOperation call with an allowed value returns and sets it, a call with
\* any other value raises PATSException.
C29_OperationIsAlwaysAllowed ==
    /\ obj.cls \in LineItemClasses => InStrings(obj.attrs.operation, possible_operations)
    /\ (vo.op = "setOperation" /\ InStrings(args[1], possible_operations))
          => vo.kind = "return" /\ obj.attrs.operation = args[1]
    /\ (vo.op = "setOperation" /\ ~InStrings(args[1], possible_operations))
          => VORaised("PATSException")

----------------------------------------------------------------------------
(* Properties of the buyer and the seller *)

\* C27: create_campaign called with a CampaignDetails sends exactly one POST
\* to /campaigns, whose X-MO-Organization-ID is the organisation of the
\* campaign or else the client's agency_id and whose X-MO-Agency-Group-ID is
\* the client's agency_group_id, with an X-MO-User-ID header; the call does
\* not fail before the request is sent.
C27_CreateCampaignSendsOnePost ==
    (op.name = "create_campaign" /\ obj.cls = "CampaignDetails") =>
        /\ Len(op.requests) = 1
        /\ op.requests[1].method = "POST"
        /\ op.requests[1].domain = AGENCY_API_DOMAIN
        /\ op.requests[1].path = "/campaigns"
        /\ op.requests[1].extra_headers["X-MO-Organization-ID"]
              = PyOr(obj.attrs.organisation_id, caller.agency_id)
        /\ op.requests[1].extra_headers["X-MO-Agency-Group-ID"] = caller.agency_group_id
        /\ "X-MO-User-ID" \in DOMAIN op.requests[1].extra_headers

\* the list_all_orders call in progress, or the one that ended
ListingAll == op.name = "list_all_orders"

\* len() of the i-th page list_orders returned
FetchedLen(i) == Len(Elements(op.fetched[i]))

\* the pages list_orders returned, one after the other
RECURSIVE Concatenated(_)
Concatenated(pages) ==
    IF Len(pages) = 0 THEN << >>
    ELSE Elements(Head(pages)) \o Concatenated(Tail(pages))

\* what list_all_orders has done so far is what the claim allows
PagesInOrder ==
    ListingAll =>
        /\ \A i \in 1..Len(op.requests) :
              /\ op.requests[i].method = "GET"
              /\ op.requests[i].path = OrdersPath(op.since, 25, i)
        /\ Len(op.requests) = Len(op.fetched) + (IF op.pc = "raised" /\ op.what = "PATSException"
                                                     /\ IsDate(op.since) THEN 1 ELSE 0)
        /\ \A i \in 1..(Len(op.fetched) - 1) : FetchedLen(i) = 25
        /\ op.pc = "loop" =>
              /\ \A i \in 1..Len(op.fetched) : FetchedLen(i) = 25
              /\ op.page = Len(op.fetched) + 1
        /\ op.pc = "returned" =>
              /\ Len(op.fetched) >= 1
              /\ FetchedLen(Len(op.fetched)) # 25
              /\ op.value = JArr(Concatenated(op.fetched))
        /\ op.pc = "raised" => op.value = JNull

\* the call has stopped asking for pages
PagingOver == op.pc \in {"returned", "raised"}

\* every page up to the last one the model's server has was full
AllPagesFull == op.pc = "loop" /\ op.page > MaxPages

\* C28: list_all_orders asks list_orders for the pages 1, 2, 3, ... in this
\* order with page size 25, each once; it asks for no page after the first
\* one whose length is not 25, and then returns the fetched pages
\* concatenated in page order; an exception of a page ends the call with no
\* result; and the call ends unless every page is full.
C28_ListAllOrdersPaging ==
    /\ []PagesInOrder
    /\ (ListingAll /\ op.pc = "loop") ~> (PagingOver \/ AllPagesFull)

C28_Witness ==
    /\ ListingAll
    /\ op.pc = "returned"
    /\ Len(op.requests) = 3
    /\ FetchedLen(1) = 25
    /\ FetchedLen(2) = 25
    /\ FetchedLen(3) = 3
    /\ Len(op.value.a) = 53
    /\ op.value.a[26] = JNum(201)

\* the line items of the payload of the revision that was sent
PayloadItems ==
    LET lists == {op.data.o[key].a : key \in {"digitalLineItems", "printLineItems"}
                                                \cap DOMAIN op.data.o}
    IN UNION {{items[i] : i \in 1..Len(items)} : items \in lists}

\* C30: every line item send_order_revision puts into the payload is in
\* seller role: it has name and customColumns, lineItemId when the item has
\* one, and no placementName, subsection or subMediaType.
C30_RevisionItemsAreInSellerRole ==
    (op.name = "send_order_revision" /\ op.data # JNull) =>
        \A item \in PayloadItems :
            /\ HasKey(item, "name")
            /\ HasKey(item, "customColumns")
            /\ (obj.cls = "InsertionOrderLineItemDigital" /\ Truthy(obj.attrs.lineItemId))
                  => HasKey(item, "lineItemId")
            /\ ~HasKey(item, "placementName")
            /\ ~HasKey(item, "subsection")
            /\ ~HasKey(item, "subMediaType")

====
